---------------------------- MODULE Spec2Model ----------------------------
(***************************************************************************)
(* A model of the maplecrm domain service (src/server/storage.ts), its     *)
(* HTTP boundary (src/server/routes.ts) and its relational schema          *)
(* (src/shared/schema.ts).                                                 *)
(*                                                                         *)
(* The relational store is modelled as three tables (functions from the    *)
(* serial id of a row to the row) plus the serial counters.  Instants are  *)
(* positive integers, SQL NULL is the value NULL.  Untyped request data is *)
(* modelled as tagged JavaScript values, so that typeof / truthiness /     *)
(* parsing behave as they do in the handlers.                              *)
(***************************************************************************)
EXTENDS Integers, Sequences, FiniteSets, TLC

VARIABLES
    teamMembers,     \* set of ids of the rows of team_members
    clients,         \* table clients:   id -> row
    projects,        \* table projects:  id -> row
    documents,       \* table documents: id -> row
    files,           \* paths of the files present in the upload directory
    nextClientId,    \* serial of clients.id
    nextProjectId,   \* serial of projects.id
    nextDocumentId,  \* serial of documents.id
    clock,           \* the wall clock read by new Date()
    last,            \* the last storage/route call and its outcome
    reqs,            \* in-flight updateProject requests (interleaved runs)
    norm             \* the hasInvoice normalisation pipeline (pure runs)

vars == <<teamMembers, clients, projects, documents, files, nextClientId,
          nextProjectId, nextDocumentId, clock, last, reqs, norm>>

dbVars == <<teamMembers, clients, projects, documents, files, nextClientId,
            nextProjectId, nextDocumentId, clock>>

-----------------------------------------------------------------------------
(* Bounds of the model.                                                    *)

MaxClock == 4      \* number of handler calls in one run
MaxClients == 3    \* highest client id handed out
MaxProjects == 3   \* highest project id handed out
MaxDocuments == 2  \* highest document id handed out
MaxReqs == 2       \* concurrent updateProject requests
MaxApplied == 2    \* applications of the storage hasInvoice conversion

-----------------------------------------------------------------------------
(* SQL NULL of a nullable column (timestamp, integer reference).           *)
NULL == 0

(* JavaScript values: t is the typeof-like tag, n the number / instant /   *)
(* truth value, s the characters of a string.                              *)
JV(t, n, s) == [t |-> t, n |-> n, s |-> s]
Undef == JV("undefined", 0, "")
JNull == JV("null", 0, "")
JBool(b) == JV("boolean", IF b THEN 1 ELSE 0, "")
JNum(n) == JV("number", n, "")
JNaN == JV("nan", 0, "")
JStr(s) == JV("string", 0, s)
JDate(n) == JV("date", n, "")
InvalidDate == JV("invalid_date", 0, "")

IsString(v) == v.t = "string"
IsNumber(v) == v.t \in {"number", "nan"}
IsBoolean(v) == v.t = "boolean"
IsDate(v) == v.t \in {"date", "invalid_date"}

(* JavaScript truthiness: undefined, null, false, 0, NaN and "" are falsy. *)
Truthy(v) ==
    CASE v.t = "undefined" -> FALSE
      [] v.t = "null" -> FALSE
      [] v.t = "boolean" -> v.n = 1
      [] v.t = "number" -> v.n # 0
      [] v.t = "nan" -> FALSE
      [] v.t = "string" -> v.s # ""
      [] OTHER -> TRUE

(* a || b *)
OrElse(a, b) == IF Truthy(a) THEN a ELSE b

(* String.prototype.toLowerCase on the strings of the model.               *)
toLowerCase(s) ==
    CASE s \in {"TRUE", "True", "true"} -> "true"
      [] s \in {"FALSE", "False", "false"} -> "false"
      [] s \in {"YES", "Yes", "yes"} -> "yes"
      [] s \in {"NO", "No", "no"} -> "no"
      [] s = "Maybe" -> "maybe"
      [] OTHER -> s

(* new Date(string): the instant an ISO-8601 string denotes, or Invalid    *)
(* Date for a string that is no date.                                      *)
NewDate(s) ==
    CASE s = "2024-01-01" -> JDate(1)
      [] s = "2024-01-02" -> JDate(2)
      [] s = "2024-01-03" -> JDate(3)
      [] OTHER -> InvalidDate

(* parseInt(string): the leading integer, or NaN.                          *)
parseInt(s) ==
    CASE s = "1" -> JNum(1)
      [] s = "2" -> JNum(2)
      [] s = "9" -> JNum(9)
      [] OTHER -> JNaN


-----------------------------------------------------------------------------
(* Request payloads: the fields of a project payload the handlers read.    *)
(* phoneNumber, poc and activeStage are copied like affiliatePartner and   *)
(* take part in no rule; they are left out of the rows.                    *)

NoData ==
    [name |-> Undef, type |-> Undef, status |-> Undef, lastContacted |-> Undef,
     hasInvoice |-> Undef, assignedToId |-> Undef, clientId |-> Undef,
     affiliatePartner |-> Undef, category |-> Undef]

(* hasInvoiceYesNo with every string other than true taken for "no".       *)
hasInvoiceYesNo_strict(v) ==
    IF IsBoolean(v) THEN (IF v.n = 1 THEN JStr("yes") ELSE JStr("no"))
    ELSE IF IsNumber(v)
         THEN (IF v.t = "number" /\ v.n > 0 THEN JStr("yes") ELSE JStr("no"))
    ELSE IF IsString(v) /\ toLowerCase(v.s) = "true" THEN JStr("yes")
    ELSE JStr("no")

(* The hasInvoice conversion both storage handlers apply to a value that   *)
(* is not undefined.                                                       *)
hasInvoiceYesNo(v) ==
    IF IsBoolean(v) THEN (IF v.n = 1 THEN JStr("yes") ELSE JStr("no"))
    ELSE IF IsNumber(v)
         THEN (IF v.t = "number" /\ v.n > 0 THEN JStr("yes") ELSE JStr("no"))
    ELSE IF IsString(v)
         THEN (IF toLowerCase(v.s) = "true" THEN JStr("yes")
               ELSE IF toLowerCase(v.s) = "false" THEN JStr("no")
               ELSE v)
    ELSE JStr("no")

(* createProject: an absent hasInvoice becomes "no".                       *)
createHasInvoice(v) == IF v # Undef THEN hasInvoiceYesNo(v) ELSE JStr("no")

(* The route's conversion: booleans, numbers and the strings true/false    *)
(* are converted, everything else (null included) is left as it is.        *)
routeHasInvoice(v) ==
    IF v = Undef THEN v
    ELSE IF IsBoolean(v) THEN (IF v.n = 1 THEN JStr("yes") ELSE JStr("no"))
    ELSE IF IsNumber(v)
         THEN (IF v.t = "number" /\ v.n > 0 THEN JStr("yes") ELSE JStr("no"))
    ELSE IF IsString(v)
         THEN (IF toLowerCase(v.s) = "true" THEN JStr("yes")
               ELSE IF toLowerCase(v.s) = "false" THEN JStr("no")
               ELSE v)
    ELSE v

(* The route's lastContacted conversion: a truthy string becomes its Date, *)
(* or null when it is no valid date; other values are left alone.          *)
routeLastContacted(v) ==
    IF Truthy(v) /\ IsString(v)
    THEN (IF NewDate(v.s).t = "date" THEN NewDate(v.s) ELSE JNull)
    ELSE v

(* createProject's lastContacted: string -> new Date, Date kept, another   *)
(* truthy value leaves the field unset, a falsy value gives null.          *)
createLastContacted(v) ==
    IF Truthy(v)
    THEN (IF IsString(v) THEN NewDate(v.s) ELSE IF IsDate(v) THEN v ELSE Undef)
    ELSE JNull

(* updateProject's lastContacted for a value that is not undefined.        *)
updateLastContacted(v) ==
    IF v = JNull THEN JNull
    ELSE IF IsString(v) THEN NewDate(v.s)
    ELSE IF IsDate(v) THEN v
    ELSE Undef

(* assignedToId: a string is parsed; on create a falsy value becomes 1.    *)
createAssignedToId(v) == IF IsString(v) THEN parseInt(v.s) ELSE OrElse(v, JNum(1))
updateAssignedToId(v) == IF IsString(v) THEN parseInt(v.s) ELSE v

(* The clean object createProject builds before validation.                *)
insertDataOf(data) ==
    [name |-> OrElse(data.name, JStr("")),
     type |-> OrElse(data.type, JStr("direct")),
     status |-> OrElse(data.status, JStr("active")),
     assignedToId |-> createAssignedToId(data.assignedToId),
     affiliatePartner |-> IF Truthy(data.affiliatePartner)
                          THEN data.affiliatePartner ELSE Undef,
     category |-> IF Truthy(data.category) THEN data.category ELSE Undef,
     lastContacted |-> createLastContacted(data.lastContacted),
     hasInvoice |-> createHasInvoice(data.hasInvoice)]

(* projectInsertSchema.parse: name of 2 characters or more, non-empty type *)
(* and status, hasInvoice one of yes/no, lastContacted a valid date, null  *)
(* or absent, assignedToId an integer.                                     *)
projectInsertSchema(ins) ==
    /\ IsString(ins.name) /\ Len(ins.name.s) >= 2
    /\ IsString(ins.type) /\ Len(ins.type.s) >= 1
    /\ IsString(ins.status) /\ Len(ins.status.s) >= 1
    /\ ins.hasInvoice \in {JStr("yes"), JStr("no"), Undef}
    /\ ins.lastContacted.t \in {"date", "null", "undefined"}
    /\ ins.assignedToId.t = "number"
    /\ ins.affiliatePartner.t \in {"string", "null", "undefined"}
    /\ ins.category.t \in {"string", "null", "undefined"}

(* clientInsertSchema.parse *)
clientInsertSchema(ins) ==
    /\ IsString(ins.name) /\ Len(ins.name.s) >= 2
    /\ IsString(ins.status) /\ Len(ins.status.s) >= 1
    /\ ins.lastContacted.t \in {"date", "null", "undefined"}

(* A Date, null or undefined as the value of a nullable timestamp column.  *)
ToTimestamp(v) == IF v.t = "date" THEN v.n ELSE NULL

(* The later of two nullable instants.                                     *)
Later(a, b) == IF a = NULL THEN b ELSE IF b = NULL THEN a ELSE IF a >= b THEN a ELSE b

(* a is not earlier than b (a missing b is earlier than everything).       *)
NotEarlier(a, b) == b = NULL \/ (a # NULL /\ a >= b)

-----------------------------------------------------------------------------
(* Rows and the statements the handlers issue.                             *)

ClientRow(name, status, lastContacted, updatedAt) ==
    [name |-> name, status |-> status, lastContacted |-> lastContacted,
     updatedAt |-> updatedAt]

DocumentRow(clientId, filePath) == [clientId |-> clientId, filePath |-> filePath]

(* Delete emptying the table whatever ids it is given.                     *)
Delete_all(table, ids) == [i \in {} |-> table[i]]

(* A table with one more row / without the rows of a set of ids.           *)
Insert(table, id, row) == [i \in DOMAIN table \cup {id} |-> IF i = id THEN row ELSE table[i]]
Delete(table, ids) == [i \in DOMAIN table \ ids |-> table[i]]

(* An HTTP response: the status code and the message of its JSON body.     *)
NoResponse == [status |-> 0, message |-> ""]

(* The record of a call: op, outcome, payload, the id it was given or      *)
(* returned, the client createProject auto-created, the date it handed to  *)
(* updateClientLastContacted (NULL when it did not call it), for           *)
(* deleteClient the number of documents and projects the client had, and   *)
(* for a call made by a route the clientId of the path and the response.   *)
Call(op, res, data, id, newClient, prop) ==
    [op |-> op, res |-> res, data |-> data, id |-> id, newClient |-> newClient,
     prop |-> prop, via |-> "storage", body |-> data,
     hadDocuments |-> 0, hadProjects |-> 0,
     clientId |-> NULL, response |-> NoResponse]

(* The text an error carries: the issues of a ZodError, the message of the *)
(* Error updateProject throws, the message of the database driver.         *)
errorText(err) ==
    CASE err = "ZodError" -> "Validation error: Name must be at least 2 characters"
      [] err = "NotFound" -> "Project with ID 3 not found"
      [] OTHER -> "violates foreign key constraint"

(* handleValidationError answering every error with its own text.          *)
handleValidationError_leaky(err) ==
    IF err = "ZodError"
    THEN [status |-> 400, message |-> errorText(err)]
    ELSE [status |-> 500, message |-> errorText(err)]

(* handleValidationError(err, res): 400 with the readable message of       *)
(* fromZodError for a ZodError, 500 with a fixed message for anything      *)
(* else (the error itself goes to the console).                            *)
handleValidationError(err) ==
    IF err = "ZodError"
    THEN [status |-> 400, message |-> errorText(err)]
    ELSE [status |-> 500, message |-> "Internal server error"]

(* The response of a route to the outcome of its storage call: 201 after   *)
(* a create, 200 after an update, 204 after a delete, or what the catch    *)
(* block's handleValidationError answers.                                  *)
respond(call) ==
    IF call.res # "ok" THEN handleValidationError(call.res)
    ELSE [status |-> IF call.op = "createProject" THEN 201
                     ELSE IF call.op = "updateProject" THEN 200 ELSE 204,
          message |-> ""]

(* The same call made by a route handler for the request body `body`.      *)
Routed(call, body) ==
    [call EXCEPT !.via = "route", !.body = body, !.response = respond(call)]
Recorded(call, via, body) == IF via = "route" THEN Routed(call, body) ELSE call

(* isMoreRecent without the recency test: every candidate is written.      *)
isMoreRecent_always(lastContacted, current) == TRUE

(* updateClientLastContacted's test: write only when the client has no     *)
(* date or the candidate is strictly more recent.                          *)
isMoreRecent(lastContacted, current) == current = NULL \/ lastContacted > current

(* updateClientLastContacted run without interruption: read the client,    *)
(* return when it is missing, write the date and the update timestamp when *)
(* the candidate is more recent.                                           *)
updateClientLastContacted(cl, clientId, lastContacted, now) ==
    IF clientId \notin DOMAIN cl THEN cl
    ELSE IF isMoreRecent(lastContacted, cl[clientId].lastContacted)
         THEN [cl EXCEPT ![clientId].lastContacted = lastContacted,
                         ![clientId].updatedAt = now]
         ELSE cl

(* updateClientStatus: an UPDATE by id, no row matched when it is missing. *)
updateClientStatus(cl, clientId, status, now) ==
    IF clientId \notin DOMAIN cl THEN cl
    ELSE [cl EXCEPT ![clientId].status = status, ![clientId].updatedAt = now]

(* createProject's test for auto-creating a client.                        *)
autoCreatesClient(data) ==
    data.type = JStr("direct") /\ ~Truthy(data.clientId) /\ Truthy(data.name)

(* autoClientRow with the column default for the status instead of the     *)
(* project's status.                                                       *)
autoClientRow_active(data, insertData, now) ==
    ClientRow(data.name.s, "active",
              ToTimestamp(OrElse(insertData.lastContacted, JNull)), now)

(* The client row createProject inserts for a direct project.              *)
autoClientRow(data, insertData, now) ==
    ClientRow(data.name.s, OrElse(data.status, JStr("active")).s,
              ToTimestamp(OrElse(insertData.lastContacted, JNull)), now)

(* The project row inserted for the validated data; clientId is the        *)
(* auto-created client's id, when there is one.                            *)
projectRowOf(validatedData, clientId, now) ==
    [name |-> validatedData.name.s,
     type |-> validatedData.type.s,
     status |-> validatedData.status.s,
     lastContacted |-> ToTimestamp(validatedData.lastContacted),
     hasInvoice |-> IF validatedData.hasInvoice = Undef THEN "no"
                    ELSE validatedData.hasInvoice.s,
     assignedToId |-> validatedData.assignedToId.n,
     clientId |-> clientId,
     affiliatePartner |-> IF IsString(validatedData.affiliatePartner)
                          THEN validatedData.affiliatePartner ELSE JNull,
     category |-> IF IsString(validatedData.category)
                  THEN validatedData.category ELSE JNull,
     updatedAt |-> now]

(* storage.createProject(data), called directly (via = "storage") or by    *)
(* the route for the request body `body` (via = "route").                  *)
createProjectFrom(via, body, data) ==
    LET insertData == insertDataOf(data)
        now == clock
        auto == autoCreatesClient(data)
        newClientId == IF auto THEN nextClientId ELSE NULL
        withClient == IF auto
                      THEN Insert(clients, nextClientId,
                                  autoClientRow(data, insertData, now))
                      ELSE clients
        newProject == projectRowOf(insertData, newClientId, now)
        propagates == newProject.clientId # NULL /\ newProject.lastContacted # NULL
    IN  /\ clock < MaxClock
        /\ nextProjectId <= MaxProjects
        /\ auto => nextClientId <= MaxClients
        /\ clock' = clock + 1
        /\ UNCHANGED <<teamMembers, documents, files, nextDocumentId, reqs, norm>>
        /\ IF ~projectInsertSchema(insertData)
           THEN /\ last' = Recorded(Call("createProject", "ZodError", data, NULL, NULL,
                                         NULL), via, body)
                /\ UNCHANGED <<clients, projects, nextClientId, nextProjectId>>
           ELSE /\ nextClientId' = IF auto THEN nextClientId + 1 ELSE nextClientId
                /\ nextProjectId' = nextProjectId + 1
                /\ IF newProject.assignedToId \notin teamMembers
                   THEN \* the insert violates the reference to team_members
                        /\ clients' = withClient
                        /\ UNCHANGED projects
                        /\ last' = Recorded(Call("createProject", "Error", data,
                                                 NULL, newClientId, NULL),
                                            via, body)
                   ELSE /\ projects' = Insert(projects, nextProjectId, newProject)
                        /\ clients' = IF propagates
                                      THEN updateClientLastContacted(withClient,
                                               newProject.clientId,
                                               newProject.lastContacted, now)
                                      ELSE withClient
                        /\ last' = Recorded(Call("createProject", "ok", data,
                                                 nextProjectId, newClientId,
                                                 IF propagates
                                                 THEN newProject.lastContacted
                                                 ELSE NULL),
                                            via, body)

(* POST /api/projects: the body's lastContacted and hasInvoice are         *)
(* converted, then storage.createProject runs on the result.               *)
postProjectData(body) ==
    [body EXCEPT !.lastContacted = routeLastContacted(body.lastContacted),
                 !.hasInvoice = routeHasInvoice(body.hasInvoice)]

createProject(data) == createProjectFrom("storage", data, data)

postProject(body) == createProjectFrom("route", body, postProjectData(body))

(* The column values updateProject's SET clause carries: one entry per     *)
(* payload field that is not undefined (clientId is not among the fields   *)
(* the handler copies).                                                    *)
updateDataOf(data) ==
    [name |-> data.name,
     type |-> data.type,
     affiliatePartner |-> data.affiliatePartner,
     category |-> data.category,
     status |-> data.status,
     lastContacted |-> IF data.lastContacted # Undef
                       THEN updateLastContacted(data.lastContacted) ELSE Undef,
     hasInvoice |-> IF data.hasInvoice # Undef
                    THEN hasInvoiceYesNo(data.hasInvoice) ELSE Undef,
     assignedToId |-> IF data.assignedToId # Undef
                      THEN updateAssignedToId(data.assignedToId) ELSE Undef]

(* What the store refuses in an UPDATE of projects: null in a NOT NULL     *)
(* column, a value that is no text / integer / timestamp, a date that      *)
(* cannot be serialised, an assignee that is no team member.               *)
updateRejected(updateData) ==
    \/ updateData.name.t \notin {"string", "undefined"}
    \/ updateData.type.t \notin {"string", "undefined"}
    \/ updateData.status.t \notin {"string", "undefined"}
    \/ updateData.affiliatePartner.t \notin {"string", "null", "undefined"}
    \/ updateData.category.t \notin {"string", "null", "undefined"}
    \/ updateData.hasInvoice.t \notin {"string", "undefined"}
    \/ updateData.lastContacted.t \notin {"date", "null", "undefined"}
    \/ updateData.assignedToId.t \notin {"number", "undefined"}
    \/ (updateData.assignedToId.t = "number"
        /\ updateData.assignedToId.n \notin teamMembers)

(* The row after the UPDATE: the fields of updateData that are set, and    *)
(* the refreshed update timestamp.                                         *)
updatedRowOf(row, updateData, now) ==
    [name |-> IF updateData.name # Undef THEN updateData.name.s ELSE row.name,
     type |-> IF updateData.type # Undef THEN updateData.type.s ELSE row.type,
     status |-> IF updateData.status # Undef THEN updateData.status.s ELSE row.status,
     lastContacted |-> IF updateData.lastContacted # Undef
                       THEN ToTimestamp(updateData.lastContacted)
                       ELSE row.lastContacted,
     hasInvoice |-> IF updateData.hasInvoice # Undef
                    THEN updateData.hasInvoice.s ELSE row.hasInvoice,
     assignedToId |-> IF updateData.assignedToId # Undef
                      THEN updateData.assignedToId.n ELSE row.assignedToId,
     clientId |-> row.clientId,
     affiliatePartner |-> IF updateData.affiliatePartner # Undef
                          THEN updateData.affiliatePartner ELSE row.affiliatePartner,
     category |-> IF updateData.category # Undef
                  THEN updateData.category ELSE row.category,
     updatedAt |-> now]

(* The last-contacted condition without the comparison with the project's  *)
(* previous value.                                                         *)
lastContactedChanged_always(updatedProject, currentProject) ==
    updatedProject.clientId # NULL /\ updatedProject.lastContacted # NULL

(* updateProject's test for propagating the last-contacted date.           *)
lastContactedChanged(updatedProject, currentProject) ==
    /\ updatedProject.clientId # NULL
    /\ updatedProject.lastContacted # NULL
    /\ (currentProject.lastContacted = NULL
        \/ updatedProject.lastContacted # currentProject.lastContacted)

(* statusChanged without the comparison of the two statuses.               *)
statusChanged_always(updatedProject, currentProject) ==
    updatedProject.clientId # NULL

(* updateProject's test for propagating the status.                        *)
statusChanged(updatedProject, currentProject) ==
    updatedProject.clientId # NULL /\ updatedProject.status # currentProject.status

(* updateProjectFrom without the lookup of the current project: a call    *)
(* for an id that matches no row updates nothing and returns.              *)
updateProjectFrom_unchecked(via, body, id, data) ==
    /\ clock < MaxClock
    /\ clock' = clock + 1
    /\ id \notin DOMAIN projects
    /\ last' = Recorded(Call("updateProject", "ok", data, id, NULL, NULL), via, body)
    /\ UNCHANGED <<teamMembers, clients, projects, documents, files, nextClientId,
                   nextProjectId, nextDocumentId, reqs, norm>>

(* storage.updateProject(id, data), called directly or by the route.       *)
updateProjectFrom(via, body, id, data) ==
    LET now == clock
        updateData == updateDataOf(data)
    IN  /\ clock < MaxClock
        /\ clock' = clock + 1
        /\ UNCHANGED <<teamMembers, documents, files, nextClientId, nextProjectId,
                       nextDocumentId, reqs, norm>>
        /\ IF id \notin DOMAIN projects
           THEN /\ last' = Recorded(Call("updateProject", "NotFound", data, id, NULL,
                                         NULL), via, body)
                /\ UNCHANGED <<clients, projects>>
           ELSE IF updateRejected(updateData)
           THEN /\ last' = Recorded(Call("updateProject", "Error", data, id, NULL,
                                         NULL), via, body)
                /\ UNCHANGED <<clients, projects>>
           ELSE LET currentProject == projects[id]
                    updatedProject == updatedRowOf(currentProject, updateData, now)
                    lc == lastContactedChanged(updatedProject, currentProject)
                    st == statusChanged(updatedProject, currentProject)
                    afterLc == IF lc
                               THEN updateClientLastContacted(clients,
                                        updatedProject.clientId,
                                        updatedProject.lastContacted, now)
                               ELSE clients
                IN  /\ projects' = [projects EXCEPT ![id] = updatedProject]
                    /\ clients' = IF st
                                  THEN updateClientStatus(afterLc,
                                           updatedProject.clientId,
                                           updatedProject.status, now)
                                  ELSE afterLc
                    /\ last' = Recorded(Call("updateProject", "ok", data, id, NULL,
                                             IF lc THEN updatedProject.lastContacted
                                             ELSE NULL), via, body)

updateProject(id, data) == updateProjectFrom("storage", data, id, data)

(* PATCH /api/projects/:id converts the body as POST /api/projects does.   *)
patchProject(id, body) == updateProjectFrom("route", body, id, postProjectData(body))

(* storage.deleteProject(id) *)
deleteProject(id) ==
    /\ clock < MaxClock
    /\ clock' = clock + 1
    /\ projects' = Delete(projects, {id})
    /\ last' = [Call("deleteProject", "ok", NoData, id, NULL, NULL)
                EXCEPT !.hadProjects = IF id \in DOMAIN projects THEN 1 ELSE 0]
    /\ UNCHANGED <<teamMembers, clients, documents, files, nextClientId,
                   nextProjectId, nextDocumentId, reqs, norm>>

(* storage.createClient(data): name, status and lastContacted of the       *)
(* payload, validated by clientInsertSchema.                               *)
createClient(data) ==
    LET insertData == [name |-> OrElse(data.name, JStr("")),
                       status |-> OrElse(data.status, JStr("active")),
                       lastContacted |-> createLastContacted(data.lastContacted)]
        now == clock
    IN  /\ clock < MaxClock
        /\ nextClientId <= MaxClients
        /\ clock' = clock + 1
        /\ UNCHANGED <<teamMembers, projects, documents, files, nextProjectId,
                       nextDocumentId, reqs, norm>>
        /\ IF ~clientInsertSchema(insertData)
           THEN /\ last' = Call("createClient", "ZodError", data, NULL, NULL, NULL)
                /\ UNCHANGED <<clients, nextClientId>>
           ELSE /\ clients' = Insert(clients, nextClientId,
                                     ClientRow(insertData.name.s, insertData.status.s,
                                               ToTimestamp(insertData.lastContacted),
                                               now))
                /\ nextClientId' = nextClientId + 1
                /\ last' = Call("createClient", "ok", data, nextClientId, NULL, NULL)

(* The column values updateClient's SET clause carries.                    *)
updateClientDataOf(data) ==
    [name |-> data.name,
     status |-> data.status,
     lastContacted |-> IF data.lastContacted # Undef
                       THEN updateLastContacted(data.lastContacted) ELSE Undef]

(* What cannot be written to clients: a value that is no text / timestamp, *)
(* a date that cannot be serialised, and for a row that exists null in a   *)
(* NOT NULL column.                                                        *)
updateClientRejected(id, updateData) ==
    \/ updateData.name.t \notin {"string", "null", "undefined"}
    \/ updateData.status.t \notin {"string", "null", "undefined"}
    \/ updateData.lastContacted.t \notin {"date", "null", "undefined"}
    \/ (id \in DOMAIN clients
        /\ (updateData.name = JNull \/ updateData.status = JNull))

(* storage.updateClient(id, data): the fields of the payload are written   *)
(* as they are, with the update timestamp; no row is matched and undefined *)
(* is returned when the client does not exist.                             *)
updateClient(id, data) ==
    LET updateData == updateClientDataOf(data)
        now == clock
    IN  /\ clock < MaxClock
        /\ clock' = clock + 1
        /\ UNCHANGED <<teamMembers, projects, documents, files, nextClientId,
                       nextProjectId, nextDocumentId, reqs, norm>>
        /\ IF updateClientRejected(id, updateData)
           THEN /\ last' = Call("updateClient", "Error", data, id, NULL, NULL)
                /\ UNCHANGED clients
           ELSE IF id \notin DOMAIN clients
           THEN /\ last' = Call("updateClient", "none", data, id, NULL, NULL)
                /\ UNCHANGED clients
           ELSE /\ clients' =
                      [clients EXCEPT ![id] =
                          ClientRow(IF updateData.name # Undef
                                    THEN updateData.name.s ELSE @.name,
                                    IF updateData.status # Undef
                                    THEN updateData.status.s ELSE @.status,
                                    IF updateData.lastContacted # Undef
                                    THEN ToTimestamp(updateData.lastContacted)
                                    ELSE @.lastContacted,
                                    now)]
                /\ last' = Call("updateClient", "ok", data, id, NULL, NULL)

(* POST /api/clients/:clientId/documents: the upload middleware has stored *)
(* the file, then storage.createDocument inserts the record; the insert    *)
(* is refused when the client does not exist, and the file stays.          *)
createDocument(clientId) ==
    /\ clock < MaxClock
    /\ nextDocumentId <= MaxDocuments
    /\ clock' = clock + 1
    /\ nextDocumentId' = nextDocumentId + 1
    /\ files' = files \cup {nextDocumentId}
    /\ UNCHANGED <<teamMembers, clients, projects, nextClientId, nextProjectId,
                   reqs, norm>>
    /\ IF clientId <= 0
       THEN /\ last' = Call("createDocument", "ZodError", NoData, clientId, NULL, NULL)
            /\ UNCHANGED documents
       ELSE IF clientId \notin DOMAIN clients
       THEN /\ last' = Call("createDocument", "Error", NoData, clientId, NULL, NULL)
            /\ UNCHANGED documents
       ELSE /\ documents' = Insert(documents, nextDocumentId,
                                   DocumentRow(clientId, nextDocumentId))
            /\ last' = Call("createDocument", "ok", NoData, nextDocumentId, NULL, NULL)

(* deletedAfterUnlink with a failed file removal aborting the call.        *)
deletedAfterUnlink_abort(id, unlinkFailed) == IF unlinkFailed THEN {} ELSE {id}

(* The ids deleteDocument's DELETE is issued for once the file removal has *)
(* been attempted: a failure is caught and logged, the DELETE follows.     *)
deletedAfterUnlink(id, unlinkFailed) == {id}

(* storage.deleteDocument(id): the record is read, its file is removed if  *)
(* it exists (the file system may refuse), then the record is deleted by   *)
(* id, which matches no row when the document does not exist.              *)
deleteDocumentFrom(via, clientId, id) ==
    LET path == IF id \in DOMAIN documents
                THEN {documents[id].filePath} \cap files ELSE {}
        call == [Call("deleteDocument", "ok", NoData, id, NULL, NULL)
                    EXCEPT !.hadDocuments = IF id \in DOMAIN documents THEN 1 ELSE 0,
                           !.clientId = clientId]
    IN  /\ clock < MaxClock
        /\ clock' = clock + 1
        /\ \E unlinkFailed \in BOOLEAN :
              /\ unlinkFailed => path # {}
              /\ files' = IF unlinkFailed THEN files ELSE files \ path
              /\ documents' = Delete(documents, deletedAfterUnlink(id, unlinkFailed))
        /\ last' = IF via = "route" THEN Routed(call, NoData) ELSE call
        /\ UNCHANGED <<teamMembers, clients, projects, nextClientId, nextProjectId,
                       nextDocumentId, reqs, norm>>

deleteDocument(id) == deleteDocumentFrom("storage", NULL, id)

(* DELETE /api/clients/:clientId/documents/:documentId: the handler reads  *)
(* documentId from the path and calls storage.deleteDocument with it.      *)
deleteClientDocument(clientId, documentId) ==
    deleteDocumentFrom("route", clientId, documentId)

(* GET /api/clients/:clientId/documents/:documentId/download: 404 unless   *)
(* the document exists and belongs to the client of the path.              *)
downloadClientDocument(clientId, documentId) ==
    LET found == /\ documentId \in DOMAIN documents
                 /\ documents[documentId].clientId = clientId
        call == [Call("getDocumentById", "ok", NoData, documentId, NULL, NULL)
                    EXCEPT !.via = "route", !.clientId = clientId,
                           !.response = IF found
                                        THEN [status |-> 200, message |-> ""]
                                        ELSE [status |-> 404,
                                              message |-> "Document not found"]]
    IN  /\ last' = call
        /\ UNCHANGED <<dbVars, reqs, norm>>

(* projectsOfClient matching one row only.                                 *)
projectsOfClient_one(id) ==
    LET all == {p \in DOMAIN projects : projects[p].clientId = id}
    IN  IF all = {} THEN {} ELSE {CHOOSE p \in all : TRUE}

(* deleteClient finding no document of the client.                         *)
documentsOfClient_none(id) == {}

(* The rows deleteClient's DELETE FROM projects WHERE client_id = id and   *)
(* its SELECT / DELETE on documents match.                                 *)
projectsOfClient(id) == {p \in DOMAIN projects : projects[p].clientId = id}
documentsOfClient(id) == {d \in DOMAIN documents : documents[d].clientId = id}

(* storage.deleteClient(id): the files of the client's documents are       *)
(* removed as far as the file system allows (a failure is logged), then    *)
(* the document records, the projects and the client are deleted.          *)
deleteClient(id) ==
    LET clientDocs == documentsOfClient(id)
        paths == {documents[d].filePath : d \in clientDocs} \cap files
    IN  /\ clock < MaxClock
        /\ clock' = clock + 1
        /\ \E unlinked \in SUBSET paths : files' = files \ unlinked
        /\ documents' = Delete(documents, clientDocs)
        /\ projects' = Delete(projects, projectsOfClient(id))
        /\ clients' = Delete(clients, {id})
        /\ last' = [Call("deleteClient", "ok", NoData, id, NULL, NULL)
                    EXCEPT !.hadDocuments = Cardinality(clientDocs),
                           !.hadProjects = Cardinality(
                               {p \in DOMAIN projects : projects[p].clientId = id})]
        /\ UNCHANGED <<teamMembers, nextClientId, nextProjectId, nextDocumentId,
                       reqs, norm>>

-----------------------------------------------------------------------------
(* The store after seeding (src/db/seed.ts): team members, a client and    *)
(* direct projects that reference it and carry its status.  The seed       *)
(* inserts project rows with an explicit clientId, and the schema relates  *)
(* one client to many projects (src/shared/schema.ts, clientsRelations),   *)
(* so the client here has two projects, one of them never contacted.       *)

SeedProject(name, lastContacted, clientId) ==
    [name |-> name, type |-> "direct", status |-> "active",
     lastContacted |-> lastContacted, hasInvoice |-> "no", assignedToId |-> 1,
     clientId |-> clientId, affiliatePartner |-> JNull, category |-> JNull,
     updatedAt |-> 0]

SeedClient == ClientRow("Meridian Holdings", "active", 2, 0)

NoCall == Call("none", "ok", NoData, NULL, NULL, NULL)

IdleNorm == [input |-> Undef, routed |-> FALSE, applied |-> 0, value |-> Undef]

Init ==
    /\ teamMembers = {1, 2}
    /\ clients = (1 :> SeedClient)
    /\ projects = (1 :> SeedProject("Meridian Holdings Investment Round", 2, 1))
                  @@ (2 :> SeedProject("Meridian Holdings Follow-on", NULL, 1))
    /\ documents = << >>
    /\ files = {}
    /\ nextClientId = 2
    /\ nextProjectId = 3
    /\ nextDocumentId = 1
    /\ clock = 1
    /\ last = NoCall
    /\ reqs = << >>
    /\ norm = IdleNorm

(* Payloads of the sequential runs: a project named Acme with every        *)
(* combination of type, client reference and last-contacted value, and     *)
(* payloads with a status, an unknown assignee, a partner, a name that is  *)
(* missing or too short.                                                   *)
Acme == [NoData EXCEPT !.name = JStr("Acme")]

CreatePayloads ==
    {[Acme EXCEPT !.type = t, !.clientId = c, !.lastContacted = d] :
        t \in {Undef, JStr("direct")},
        c \in {Undef, JNum(1)},
        d \in {Undef, JStr("2024-01-01"), JStr("2024-01-03"), JStr("not-a-date")}}
    \cup {[Acme EXCEPT !.type = JStr("direct"), !.status = JStr("pending"),
                       !.lastContacted = JDate(3)],
          [Acme EXCEPT !.type = JStr("direct"), !.assignedToId = JNum(9)],
          [Acme EXCEPT !.type = JStr("affiliate"),
                       !.affiliatePartner = JStr("kotak")],
          [NoData EXCEPT !.type = JStr("direct")],
          [NoData EXCEPT !.type = JStr("direct"), !.name = JStr("A")]}

UpdatePayloads ==
    {[NoData EXCEPT !.lastContacted = d, !.status = s] :
        d \in {Undef, JNull, JStr("2024-01-01"), JDate(3), JStr("not-a-date")},
        s \in {Undef, JStr("completed")}}

(* Request bodies of the routes (JSON: dates arrive as strings).           *)
PostBodies ==
    {[Acme EXCEPT !.type = JStr("direct"), !.lastContacted = d] :
        d \in {JStr("2024-01-03"), JStr("not-a-date")}}

PatchBodies ==
    {[NoData EXCEPT !.lastContacted = d] :
        d \in {JStr("2024-01-01"), JStr("not-a-date")}}

ClientPayloads ==
    {[Acme EXCEPT !.lastContacted = d] : d \in {Undef, JStr("2024-01-02")}}
    \cup {[NoData EXCEPT !.name = JStr("A")]}

Next ==
    \/ \E data \in CreatePayloads : createProject(data)
    \/ \E body \in PostBodies : postProject(body)
    \/ \E id \in 1..MaxProjects, data \in UpdatePayloads : updateProject(id, data)
    \/ \E id \in 1..MaxProjects, body \in PatchBodies : patchProject(id, body)
    \/ \E id \in 1..MaxProjects : deleteProject(id)
    \/ \E data \in ClientPayloads : createClient(data)
    \/ \E clientId \in 0..MaxClients : createDocument(clientId)
    \/ \E id \in 1..MaxClients : deleteClient(id)

Spec == Init /\ [][Next]_vars

-----------------------------------------------------------------------------
(* Properties of the sequential runs (Spec).                               *)

UpdateReturned(call) == call.op = "updateProject" /\ call.res = "ok"
CreateReturned(call) == call.op = "createProject" /\ call.res = "ok"

(* C1: an updateProject call that propagates a last-contacted date d to    *)
(* the client c of its project leaves c.lastContacted = max(previous       *)
(* value, d), and no updateProject call makes any client's lastContacted   *)
(* earlier than it was; so a sequence of calls propagating d1, d2, ...     *)
(* ends with max(previous value, d1, d2, ...).                             *)
C1_MonotonicStep ==
    UpdateReturned(last') =>
        /\ \A c \in DOMAIN clients :
              /\ c \in DOMAIN clients'
              /\ NotEarlier(clients'[c].lastContacted, clients[c].lastContacted)
        /\ last'.prop # NULL =>
              LET c == projects'[last'.id].clientId
              IN  /\ c # NULL
                  /\ c \in DOMAIN clients =>
                        clients'[c].lastContacted
                            = Later(clients[c].lastContacted, last'.prop)

C1_MonotonicPropagation == [][C1_MonotonicStep]_vars

(* C1 witness: an updateProject call propagated a date earlier than the    *)
(* client's, and the client kept its later date.                           *)
C1_Witness ==
    /\ UpdateReturned(last)
    /\ last.prop # NULL
    /\ projects[last.id].clientId \in DOMAIN clients
    /\ clients[projects[last.id].clientId].lastContacted > last.prop

(* C3: after deleteClient(id) returns, no document and no project          *)
(* references id and the client id does not exist.                         *)
C3_CascadeComplete ==
    last.op = "deleteClient" =>
        /\ last.id \notin DOMAIN clients
        /\ \A d \in DOMAIN documents : documents[d].clientId # last.id
        /\ \A p \in DOMAIN projects : projects[p].clientId # last.id

(* C3 witness: deleteClient ran on a client that had two documents and two *)
(* projects.                                                               *)
C3_Witness ==
    last.op = "deleteClient" /\ last.hadDocuments >= 2 /\ last.hadProjects >= 2

(* C4: a createProject call with type "direct", a name and no clientId     *)
(* that returns has created exactly one client, with the project's name,   *)
(* status and last-contacted value, and the project references it.         *)
DirectWithoutClient(data) ==
    data.type = JStr("direct") /\ Truthy(data.name) /\ ~Truthy(data.clientId)

C4_AutoClientStep ==
    (CreateReturned(last') /\ DirectWithoutClient(last'.data)) =>
        \E c \in DOMAIN clients' \ DOMAIN clients :
            /\ DOMAIN clients' = DOMAIN clients \cup {c}
            /\ \A o \in DOMAIN clients : clients'[o] = clients[o]
            /\ last'.id \in DOMAIN projects' \ DOMAIN projects
            /\ projects'[last'.id].clientId = c
            /\ clients'[c].name = projects'[last'.id].name
            /\ clients'[c].status = projects'[last'.id].status
            /\ clients'[c].lastContacted = projects'[last'.id].lastContacted

C4_AutoClient == [][C4_AutoClientStep]_vars

(* C4 witness: such a call returned for a project with a status and a      *)
(* last-contacted date of its own.                                         *)
C4_Witness ==
    /\ CreateReturned(last)
    /\ DirectWithoutClient(last.data)
    /\ projects[last.id].status = "pending"
    /\ projects[last.id].lastContacted # NULL
    /\ clients[projects[last.id].clientId].status = "pending"

(* C5: the project a successful createProject persists with type "direct"  *)
(* has a non-null clientId naming an existing client (also when the type   *)
(* was omitted, and when a clientId was supplied).                         *)
C5_DirectHasClient ==
    (CreateReturned(last) /\ projects[last.id].type = "direct") =>
        /\ projects[last.id].clientId # NULL
        /\ projects[last.id].clientId \in DOMAIN clients

(* C6: createProject with the clientId of an existing client c and a       *)
(* non-null lastContacted d persists the project with clientId = c and     *)
(* propagates d to c.                                                      *)
C6_LinkStep ==
    (/\ CreateReturned(last')
     /\ last'.data.clientId.t = "number"
     /\ last'.data.clientId.n \in DOMAIN clients
     /\ projects'[last'.id].lastContacted # NULL) =>
        LET c == last'.data.clientId.n
        IN  /\ projects'[last'.id].clientId = c
            /\ last'.id \in {p \in DOMAIN projects' : projects'[p].clientId = c}
            /\ clients'[c].lastContacted
                   = Later(clients[c].lastContacted, projects'[last'.id].lastContacted)

C6_LinksSuppliedClient == [][C6_LinkStep]_vars

(* C7: a createProject call that fails leaves the set of clients as it     *)
(* was.                                                                    *)
C7_FailStep ==
    (last'.op = "createProject" /\ last'.res # "ok") => clients' = clients

C7_AtomicAutoClient == [][C7_FailStep]_vars

(* C8: createProject given a lastContacted string that is no valid date    *)
(* returns, and the project it persisted has no lastContacted.             *)
NotADate(v) == IsString(v) /\ Truthy(v) /\ NewDate(v.s) = InvalidDate

-----------------------------------------------------------------------------
(* The hasInvoice field (SpecInvoice): createProject and updateProject,    *)
(* called directly and through their routes, with hasInvoice payloads of   *)
(* every JavaScript type.                                                  *)

InvoiceValues ==
    {Undef, JNull, JBool(TRUE), JNum(0), JStr("TRUE"), JStr("no"), JStr("maybe")}

InvoiceCreatePayloads == {[Acme EXCEPT !.hasInvoice = v] : v \in InvoiceValues}
InvoiceUpdatePayloads == {[NoData EXCEPT !.hasInvoice = v] : v \in InvoiceValues}

NextInvoice ==
    \/ \E data \in InvoiceCreatePayloads : createProject(data)
    \/ \E body \in InvoiceCreatePayloads : postProject(body)
    \/ \E id \in 1..MaxProjects, data \in InvoiceUpdatePayloads : updateProject(id, data)
    \/ \E id \in 1..MaxProjects, body \in InvoiceUpdatePayloads : patchProject(id, body)

SpecInvoice == Init /\ [][NextInvoice]_vars

(* C10: the hasInvoice value of every persisted project is "yes" or "no".  *)
C10_HasInvoiceTwoValued ==
    \A p \in DOMAIN projects : projects[p].hasInvoice \in {"yes", "no"}

-----------------------------------------------------------------------------
(* The hasInvoice conversions as a pipeline (SpecNorm): a request value is *)
(* converted by the route or handed to storage as it is, and the storage   *)
(* conversion is applied to the result, once or repeatedly.                *)

ValidInvoiceInputs ==
    {JBool(TRUE), JBool(FALSE), JStr("true"), JStr("false"), JStr("yes"),
     JStr("no"), JNum(1), JNum(0)}

InvoiceInputs ==
    ValidInvoiceInputs
    \cup {Undef, JNull, JNaN, JNum(-1), JNum(2), JStr("TRUE"), JStr("True"),
          JStr("FALSE"), JStr("False"), JStr("YES"), JStr("NO"), JStr("maybe"),
          JStr("Maybe"), JStr("")}

InitNorm ==
    /\ teamMembers = {1, 2}
    /\ clients = (1 :> SeedClient)
    /\ projects = << >>
    /\ documents = << >>
    /\ files = {}
    /\ nextClientId = 2
    /\ nextProjectId = 1
    /\ nextDocumentId = 1
    /\ clock = 1
    /\ last = NoCall
    /\ reqs = << >>
    /\ norm \in {[input |-> v, routed |-> FALSE, applied |-> 0, value |-> v] :
                    v \in InvoiceInputs}

(* The conversion of POST /api/projects and PATCH /api/projects/:id.       *)
normRoute ==
    /\ ~norm.routed
    /\ norm.applied = 0
    /\ norm' = [norm EXCEPT !.routed = TRUE, !.value = routeHasInvoice(norm.value)]
    /\ UNCHANGED <<dbVars, last, reqs>>

(* The conversion of storage.createProject.                                *)
normStorage ==
    /\ norm.applied < MaxApplied
    /\ norm' = [norm EXCEPT !.applied = norm.applied + 1,
                            !.value = createHasInvoice(norm.value)]
    /\ UNCHANGED <<dbVars, last, reqs>>

NextNorm == normRoute \/ normStorage

SpecNorm == InitNorm /\ [][NextNorm]_vars

(* C9: on the inputs true, false, "true", "false", "yes", "no", 1, 0 the   *)
(* storage conversion N gives "yes" or "no", leaves "yes" and "no" as they *)
(* are, gives the same value when applied again, and gives the same value  *)
(* after the route's conversion as applied alone.                          *)
C9_Idempotent ==
    (norm.input \in ValidInvoiceInputs /\ norm.applied >= 1) =>
        /\ norm.value \in {JStr("yes"), JStr("no")}
        /\ norm.input \in {JStr("yes"), JStr("no")} => norm.value = norm.input
        /\ norm.input \in {JBool(TRUE), JStr("true"), JNum(1)} => norm.value = JStr("yes")
        /\ norm.input \in {JBool(FALSE), JStr("false"), JNum(0)} => norm.value = JStr("no")

(* C9 witness: "yes" went through the route and twice through storage.     *)
C9_Witness ==
    /\ norm.input = JStr("yes")
    /\ norm.routed
    /\ norm.applied = 2
    /\ norm.value = JStr("yes")

-----------------------------------------------------------------------------
(* Interleaved updateProject requests (SpecConc).  Every await of the      *)
(* handler is a step of its own: the read of the current project, the      *)
(* UPDATE of the project, the read of the client in                        *)
(* updateClientLastContacted, its conditional UPDATE of the client, and    *)
(* the UPDATE of updateClientStatus.  A request arrives at a new instant.  *)

Request(id, data) ==
    [pc |-> "findProject", id |-> id, data |-> data, res |-> "pending",
     currentProject |-> SeedProject("", NULL, NULL),
     updatedProject |-> SeedProject("", NULL, NULL),
     prop |-> NULL]

AllReturned == \A r \in DOMAIN reqs : reqs[r].pc = "done"

(* where updateProject continues after the last-contacted propagation      *)
afterLastContacted(request) ==
    IF statusChanged(request.updatedProject, request.currentProject)
    THEN "updateClientStatus" ELSE "done"

startUpdate(id, data) ==
    /\ Len(reqs) < MaxReqs
    /\ reqs' = Append(reqs, Request(id, data))
    /\ clock' = clock + 1
    /\ UNCHANGED <<teamMembers, clients, projects, documents, files, nextClientId,
                   nextProjectId, nextDocumentId, last, norm>>

(* const currentProject = await db.query.projects.findFirst(...) *)
findProject(r) ==
    /\ reqs[r].pc = "findProject"
    /\ reqs' = IF reqs[r].id \notin DOMAIN projects
               THEN [reqs EXCEPT ![r].pc = "done", ![r].res = "NotFound"]
               ELSE [reqs EXCEPT ![r].pc = "updateProject",
                                 ![r].currentProject = projects[reqs[r].id]]
    /\ UNCHANGED <<dbVars, last, norm>>

(* const [updatedProject] = await db.update(projects)...returning() *)
writeProject(r) ==
    LET request == reqs[r]
        updateData == updateDataOf(request.data)
    IN  /\ request.pc = "updateProject"
        /\ IF request.id \notin DOMAIN projects \/ updateRejected(updateData)
           THEN /\ reqs' = [reqs EXCEPT ![r].pc = "done", ![r].res = "Error"]
                /\ UNCHANGED projects
           ELSE LET updatedProject ==
                        updatedRowOf(projects[request.id], updateData, clock)
                    lc == lastContactedChanged(updatedProject, request.currentProject)
                    moved == [request EXCEPT !.updatedProject = updatedProject,
                                             !.prop = IF lc
                                                      THEN updatedProject.lastContacted
                                                      ELSE NULL]
                IN  /\ projects' = [projects EXCEPT ![request.id] = updatedProject]
                    /\ reqs' = [reqs EXCEPT ![r] =
                                   [moved EXCEPT !.pc = IF lc THEN "findClient"
                                                        ELSE afterLastContacted(moved),
                                                 !.res = IF lc \/ afterLastContacted(moved) # "done"
                                                         THEN "pending" ELSE "ok"]]
        /\ UNCHANGED <<teamMembers, clients, documents, files, nextClientId,
                       nextProjectId, nextDocumentId, clock, last, norm>>

(* updateClientLastContacted: const client = await findFirst(...), the     *)
(* return for a missing client and the test on the row that was read.      *)
findClient(r) ==
    LET request == reqs[r]
        clientId == request.updatedProject.clientId
        writes == /\ clientId \in DOMAIN clients
                  /\ isMoreRecent(request.prop, clients[clientId].lastContacted)
        next == IF writes THEN "writeClient" ELSE afterLastContacted(request)
    IN  /\ request.pc = "findClient"
        /\ reqs' = [reqs EXCEPT ![r].pc = next,
                                ![r].res = IF next = "done" THEN "ok" ELSE "pending"]
        /\ UNCHANGED <<dbVars, last, norm>>

(* updateClientLastContacted: await db.update(clients).set({lastContacted, *)
(* updatedAt}) for the client id.                                          *)
writeClient(r) ==
    LET request == reqs[r]
        clientId == request.updatedProject.clientId
        next == afterLastContacted(request)
    IN  /\ request.pc = "writeClient"
        /\ clients' = IF clientId \in DOMAIN clients
                      THEN [clients EXCEPT ![clientId].lastContacted = request.prop,
                                           ![clientId].updatedAt = clock]
                      ELSE clients
        /\ reqs' = [reqs EXCEPT ![r].pc = next,
                                ![r].res = IF next = "done" THEN "ok" ELSE "pending"]
        /\ UNCHANGED <<teamMembers, projects, documents, files, nextClientId,
                       nextProjectId, nextDocumentId, clock, last, norm>>

(* await updateClientStatus(updatedProject.clientId, updatedProject.status) *)
writeClientStatus(r) ==
    LET request == reqs[r]
    IN  /\ request.pc = "updateClientStatus"
        /\ clients' = updateClientStatus(clients, request.updatedProject.clientId,
                                         request.updatedProject.status, clock)
        /\ reqs' = [reqs EXCEPT ![r].pc = "done", ![r].res = "ok"]
        /\ UNCHANGED <<teamMembers, projects, documents, files, nextClientId,
                       nextProjectId, nextDocumentId, clock, last, norm>>

ConcPayloads ==
    {[NoData EXCEPT !.lastContacted = d, !.status = s] :
        d \in {Undef, JDate(1), JDate(3), JDate(4)},
        s \in {Undef, JStr("completed")}}

NextConc ==
    \/ \E id \in 1..MaxProjects, data \in ConcPayloads : startUpdate(id, data)
    \/ \E r \in DOMAIN reqs : findProject(r)
    \/ \E r \in DOMAIN reqs : writeProject(r)
    \/ \E r \in DOMAIN reqs : findClient(r)
    \/ \E r \in DOMAIN reqs : writeClient(r)
    \/ \E r \in DOMAIN reqs : writeClientStatus(r)

SpecConc == Init /\ [][NextConc]_vars

(* The latest of a non-empty set of nullable instants.                     *)
Latest(S) == CHOOSE m \in S : \A x \in S : NotEarlier(m, x)

(* The dates the requests handed to updateClientLastContacted for client c *)
PropagatedTo(c) ==
    {reqs[r].prop : r \in {q \in DOMAIN reqs : /\ reqs[q].prop # NULL
                                               /\ reqs[q].updatedProject.clientId = c}}

(* C2: with updateProject requests on different projects of one client     *)
(* interleaved, no step makes the client's lastContacted earlier than it   *)
(* was, and once all requests have returned it is the most recent of the   *)
(* propagated dates and the prior value.                                   *)
OnDifferentProjects ==
    \A q, r \in DOMAIN reqs : q # r => reqs[q].id # reqs[r].id

C2_ConcStep ==
    OnDifferentProjects' =>
        \A c \in DOMAIN clients :
            /\ NotEarlier(clients'[c].lastContacted, clients[c].lastContacted)
            /\ AllReturned' =>
                  clients'[c].lastContacted
                      = Latest(PropagatedTo(c)' \cup {SeedClient.lastContacted})

-----------------------------------------------------------------------------
(* Partial updates and deletions (SpecFrame): createProject, updateProject *)
(* with payloads that set, clear or leave out each field, deleteProject,   *)
(* createClient, updateClient and document uploads, one call after another *)
(* on the seeded store.                                                    *)

FrameCreatePayloads ==
    {[Acme EXCEPT !.type = JStr("direct"), !.lastContacted = JStr("2024-01-03")],
     [Acme EXCEPT !.type = JStr("other"), !.category = JStr("idc")]}

FrameUpdatePayloads ==
    {[NoData EXCEPT !.status = JStr("completed")],
     [NoData EXCEPT !.status = JStr("pending"), !.lastContacted = JDate(3)],
     [NoData EXCEPT !.lastContacted = JNull],
     [NoData EXCEPT !.lastContacted = JStr("2024-01-01"), !.hasInvoice = JBool(TRUE)],
     [NoData EXCEPT !.clientId = JNull],
     [NoData EXCEPT !.clientId = JNum(2), !.assignedToId = JStr("2")],
     [NoData EXCEPT !.type = JStr("affiliate"), !.affiliatePartner = JStr("kotak")],
     [NoData EXCEPT !.affiliatePartner = JNull, !.category = JNull],
     [NoData EXCEPT !.name = JNull]}

ClientUpdatePayloads ==
    {[NoData EXCEPT !.lastContacted = JNull],
     [NoData EXCEPT !.lastContacted = JStr("2024-01-01")],
     [NoData EXCEPT !.status = JStr("on-hold")]}

NextFrame ==
    \/ \E data \in FrameCreatePayloads : createProject(data)
    \/ \E id \in 1..nextProjectId, data \in FrameUpdatePayloads : updateProject(id, data)
    \/ \E id \in 1..nextProjectId : deleteProject(id)
    \/ createClient(Acme)
    \/ \E id \in 1..nextClientId, data \in ClientUpdatePayloads : updateClient(id, data)
    \/ \E clientId \in DOMAIN clients : createDocument(clientId)

SpecFrame == Init /\ [][NextFrame]_vars

(* The column value a payload field stands for: null clears the column, a  *)
(* date string is its instant, a numeric string its number.                *)
SuppliedText(v, old) == IF v = Undef THEN old ELSE v.s
SuppliedNullableText(v, old) == IF v = Undef THEN old ELSE v
SuppliedInstant(v, old) ==
    IF v = Undef THEN old
    ELSE IF v = JNull THEN NULL
    ELSE IF IsString(v) THEN NewDate(v.s).n
    ELSE v.n
SuppliedInteger(v, old) ==
    IF v = Undef THEN old
    ELSE IF v = JNull THEN NULL
    ELSE IF IsString(v) THEN parseInt(v.s).n
    ELSE v.n
SuppliedInvoice(v, old) ==
    IF v = Undef THEN old
    ELSE IF v \in {JBool(TRUE), JStr("true")} THEN "yes"
    ELSE IF v \in {JBool(FALSE), JStr("false")} THEN "no"
    ELSE v.s

(* C11: an updateProject call that returns leaves every field absent from  *)
(* the payload as it was, gives every field present in the payload         *)
(* (clientId included) the supplied value, clears a field supplied as      *)
(* null, and refreshes the update timestamp.                               *)
C11_PartialStep ==
    UpdateReturned(last') =>
        LET data == last'.data
            old == projects[last'.id]
            new == projects'[last'.id]
        IN  /\ new.name = SuppliedText(data.name, old.name)
            /\ new.type = SuppliedText(data.type, old.type)
            /\ new.status = SuppliedText(data.status, old.status)
            /\ new.lastContacted = SuppliedInstant(data.lastContacted, old.lastContacted)
            /\ new.hasInvoice = SuppliedInvoice(data.hasInvoice, old.hasInvoice)
            /\ new.assignedToId = SuppliedInteger(data.assignedToId, old.assignedToId)
            /\ new.clientId = SuppliedInteger(data.clientId, old.clientId)
            /\ new.affiliatePartner
                   = SuppliedNullableText(data.affiliatePartner, old.affiliatePartner)
            /\ new.category = SuppliedNullableText(data.category, old.category)
            /\ new.updatedAt = clock

C11_PartialUpdate == [][C11_PartialStep]_vars

(* C12: an updateProject call for an id that names no project fails with   *)
(* the not-found error and leaves every project, client and document       *)
(* record as it was.                                                       *)
C12_NotFoundStep ==
    (last'.op = "updateProject" /\ last'.id \notin DOMAIN projects) =>
        /\ last'.res = "NotFound"
        /\ projects' = projects
        /\ clients' = clients
        /\ documents' = documents

C12_NotFound == [][C12_NotFoundStep]_vars

(* C12 witness: updateProject failed with not-found for a project that had *)
(* been deleted, in a store that holds projects, a client and a document.  *)
C12_Witness ==
    /\ last.op = "updateProject"
    /\ last.res = "NotFound"
    /\ last.id < nextProjectId
    /\ last.data.status = JStr("completed")
    /\ DOMAIN projects # {}
    /\ DOMAIN documents # {}
    /\ \A c \in DOMAIN clients : clients[c].status # "completed"

(* C13: an updateProject call that returns for a project linked to a       *)
(* client sets the client's status to the project's new status when the    *)
(* call changed the project's status, and leaves the client's status as it *)
(* was when it did not; the status of no other client changes.             *)
C13_StatusStep ==
    UpdateReturned(last') =>
        LET old == projects[last'.id]
            new == projects'[last'.id]
        IN  /\ new.clientId \in DOMAIN clients =>
                  clients'[new.clientId].status
                      = IF new.status # old.status THEN new.status
                        ELSE clients[new.clientId].status
            /\ \A c \in DOMAIN clients \ {new.clientId} :
                  clients'[c].status = clients[c].status

C13_StatusPropagation == [][C13_StatusStep]_vars

(* C13 witness: a project went to "pending" and took its client with it,   *)
(* while another project of that client is "completed".                    *)
C13_Witness ==
    /\ UpdateReturned(last)
    /\ last.data.status = JStr("pending")
    /\ projects[last.id].clientId \in DOMAIN clients
    /\ clients[projects[last.id].clientId].status = "pending"
    /\ \E p \in DOMAIN projects :
          /\ projects[p].clientId = projects[last.id].clientId
          /\ projects[p].status = "completed"

(* C14: every project that is linked to a client and has a last-contacted  *)
(* date has a client whose last-contacted date is present and not earlier. *)
C14_ClientNotEarlier ==
    \A p \in DOMAIN projects :
        (/\ projects[p].clientId \in DOMAIN clients
         /\ projects[p].lastContacted # NULL) =>
            /\ clients[projects[p].clientId].lastContacted # NULL
            /\ clients[projects[p].clientId].lastContacted >= projects[p].lastContacted

(* C16: deleteProject(id) returns without error, removes the project id    *)
(* and nothing else: every other project, every client (status,            *)
(* last-contacted date, update timestamp) and every document and file is   *)
(* as it was; for an id that names no project nothing changes.             *)
C16_DeleteStep ==
    last'.op = "deleteProject" =>
        /\ last'.res = "ok"
        /\ DOMAIN projects' = DOMAIN projects \ {last'.id}
        /\ \A p \in DOMAIN projects' : projects'[p] = projects[p]
        /\ clients' = clients
        /\ documents' = documents
        /\ files' = files
        /\ last'.id \notin DOMAIN projects => projects' = projects

C16_DeleteProjectFrame == [][C16_DeleteStep]_vars

(* C16 witness: deleteProject removed a project of a client that still     *)
(* exists, has another project and has a document.                         *)
C16_Witness ==
    /\ last.op = "deleteProject"
    /\ last.hadProjects = 1
    /\ last.id \notin DOMAIN projects
    /\ \E c \in DOMAIN clients :
          /\ \E p \in DOMAIN projects : projects[p].clientId = c
          /\ \E d \in DOMAIN documents : documents[d].clientId = c

-----------------------------------------------------------------------------
(* deleteClient statement by statement (SpecDel).  Every await of the      *)
(* handler is a step of its own, so that document uploads and other        *)
(* deleteClient requests run in between: the SELECT of the client's        *)
(* documents, the synchronous removal of their files, the DELETE of the    *)
(* document records, the DELETE of the projects, the DELETE of the client. *)
(* The store refuses to delete a client that a document or a project       *)
(* still references.                                                       *)

DeleteRequest(id) ==
    [pc |-> "selectDocs", id |-> id, res |-> "pending", clientDocs |-> {},
     removedDocuments |-> 0, removedProjects |-> 0]

startDeleteClient(id) ==
    /\ Len(reqs) < MaxReqs
    /\ reqs' = Append(reqs, DeleteRequest(id))
    /\ UNCHANGED <<dbVars, last, norm>>

(* const clientDocs = await db.select().from(documents).where(...) *)
selectClientDocs(r) ==
    /\ reqs[r].pc = "selectDocs"
    /\ reqs' = [reqs EXCEPT ![r].pc = "unlink",
                            ![r].clientDocs = {documents[d].filePath :
                                                  d \in documentsOfClient(reqs[r].id)}]
    /\ UNCHANGED <<dbVars, last, norm>>

(* for (const doc of clientDocs) { existsSync / unlinkSync, errors logged } *)
unlinkClientFiles(r) ==
    /\ reqs[r].pc = "unlink"
    /\ \E unlinked \in SUBSET (reqs[r].clientDocs \cap files) : files' = files \ unlinked
    /\ reqs' = [reqs EXCEPT ![r].pc = IF reqs[r].clientDocs # {} THEN "deleteDocs"
                                      ELSE "deleteProjects"]
    /\ UNCHANGED <<teamMembers, clients, projects, documents, nextClientId,
                   nextProjectId, nextDocumentId, clock, last, norm>>

(* await db.delete(documents).where(eq(documents.clientId, id)) *)
deleteClientDocs(r) ==
    /\ reqs[r].pc = "deleteDocs"
    /\ documents' = Delete(documents, documentsOfClient(reqs[r].id))
    /\ reqs' = [reqs EXCEPT ![r].pc = "deleteProjects",
                            ![r].removedDocuments =
                                Cardinality(documentsOfClient(reqs[r].id))]
    /\ UNCHANGED <<teamMembers, clients, projects, files, nextClientId,
                   nextProjectId, nextDocumentId, clock, last, norm>>

(* await db.delete(projects).where(eq(projects.clientId, id)) *)
deleteClientProjects(r) ==
    /\ reqs[r].pc = "deleteProjects"
    /\ projects' = Delete(projects, projectsOfClient(reqs[r].id))
    /\ reqs' = [reqs EXCEPT ![r].pc = "deleteClient",
                            ![r].removedProjects =
                                Cardinality(projectsOfClient(reqs[r].id))]
    /\ UNCHANGED <<teamMembers, clients, documents, files, nextClientId,
                   nextProjectId, nextDocumentId, clock, last, norm>>

(* await db.delete(clients).where(eq(clients.id, id)): refused, and the    *)
(* handler throws, while a document or a project references the client.    *)
deleteClientRow(r) ==
    LET id == reqs[r].id
        referenced == documentsOfClient(id) # {} \/ projectsOfClient(id) # {}
    IN  /\ reqs[r].pc = "deleteClient"
        /\ clients' = IF referenced THEN clients ELSE Delete(clients, {id})
        /\ reqs' = [reqs EXCEPT ![r].pc = "done",
                                ![r].res = IF referenced THEN "Error" ELSE "ok"]
        /\ UNCHANGED <<teamMembers, projects, documents, files, nextClientId,
                       nextProjectId, nextDocumentId, clock, last, norm>>

NextDel ==
    \/ \E id \in 1..MaxClients : startDeleteClient(id)
    \/ \E r \in DOMAIN reqs : selectClientDocs(r)
    \/ \E r \in DOMAIN reqs : unlinkClientFiles(r)
    \/ \E r \in DOMAIN reqs : deleteClientDocs(r)
    \/ \E r \in DOMAIN reqs : deleteClientProjects(r)
    \/ \E r \in DOMAIN reqs : deleteClientRow(r)
    \/ \E clientId \in 1..MaxClients : createDocument(clientId)

SpecDel == Init /\ [][NextDel]_vars

(* C15: when a deleteClient call has failed, either the client is gone or  *)
(* none of its documents and projects were removed by the call.            *)
C15_DeleteClientUnit ==
    \A r \in DOMAIN reqs :
        (reqs[r].pc = "done" /\ reqs[r].res = "Error") =>
            ~ /\ reqs[r].id \in DOMAIN clients
              /\ reqs[r].removedDocuments + reqs[r].removedProjects > 0

-----------------------------------------------------------------------------
(* Documents (SpecDocs): uploads, deleteDocument and deleteClient on a     *)
(* store with the seeded client and clients created on the way.            *)

NextDocs ==
    \/ createClient(Acme)
    \/ \E clientId \in 0..MaxClients : createDocument(clientId)
    \/ \E id \in 1..nextDocumentId : deleteDocument(id)
    \/ \E id \in 1..nextClientId : deleteClient(id)

SpecDocs == Init /\ [][NextDocs]_vars

(* C17: deleteDocument(id) returns without error and leaves no document    *)
(* record id, also when the file could not be removed; the other document  *)
(* records, the clients and the projects are as they were, and for an id   *)
(* that names no document neither records nor files change.                *)
C17_DeleteDocumentStep ==
    last'.op = "deleteDocument" =>
        /\ last'.res = "ok"
        /\ DOMAIN documents' = DOMAIN documents \ {last'.id}
        /\ \A d \in DOMAIN documents' : documents'[d] = documents[d]
        /\ clients' = clients
        /\ projects' = projects
        /\ last'.id \notin DOMAIN documents =>
              documents' = documents /\ files' = files

C17_DeleteDocument == [][C17_DeleteDocumentStep]_vars

(* C17 witness: deleteDocument removed the record of a document whose file *)
(* could not be removed and is still on disk, next to another document.    *)
C17_Witness ==
    /\ last.op = "deleteDocument"
    /\ last.hadDocuments = 1
    /\ last.id \in files
    /\ last.id \notin DOMAIN documents
    /\ DOMAIN documents # {}

-----------------------------------------------------------------------------
(* getProjects (SpecList): the list query with its in-memory filters, on a *)
(* store whose projects are updated in between.  Instants count days; the  *)
(* calendar is scaled down so that the clock of a run crosses bucket       *)
(* boundaries: a week is WeekLen days, a month MonthLen, a quarter         *)
(* QuarterLen, each bucket starting at a multiple of its length.           *)

WeekLen == 2
MonthLen == 3
QuarterLen == 6

(* date-fns startOfWeek / startOfMonth / startOfQuarter, and the start of  *)
(* the day new Date(format(today, 'yyyy-MM-dd')) denotes.                  *)
startOfDay(t) == t
startOfWeek(t) == t - (t % WeekLen)
startOfMonth(t) == t - (t % MonthLen)
startOfQuarter(t) == t - (t % QuarterLen)

NoFilters ==
    [status |-> Undef, assignedToId |-> Undef, type |-> Undef, lastContacted |-> Undef]

(* filterGiven with "all" taken for a value to match.                      *)
filterGiven_strict(v) == Truthy(v)

(* filters.x && filters.x !== 'all' *)
filterGiven(v) == Truthy(v) /\ v # JStr("all")

(* The switch on filters.lastContacted: the rows kept by the bucket, every *)
(* row for a word that is no bucket.                                       *)
inBucket(row, bucket, today) ==
    CASE bucket = "today" ->
            row.lastContacted # NULL /\ row.lastContacted >= startOfDay(today)
      [] bucket = "week" ->
            row.lastContacted # NULL /\ row.lastContacted >= startOfWeek(today)
      [] bucket = "month" ->
            row.lastContacted # NULL /\ row.lastContacted >= startOfMonth(today)
      [] bucket = "quarter" ->
            row.lastContacted # NULL /\ row.lastContacted >= startOfQuarter(today)
      [] OTHER -> TRUE

(* The four in-memory filters of getProjects applied to one row.           *)
matchesFilters(row, filters, today) ==
    /\ filterGiven(filters.status) => row.status = filters.status.s
    /\ filterGiven(filters.assignedToId) =>
          JNum(row.assignedToId) = parseInt(filters.assignedToId.s)
    /\ filterGiven(filters.type) => row.type = filters.type.s
    /\ filterGiven(filters.lastContacted) =>
          inBucket(row, filters.lastContacted.s, today)

(* orderBy: [desc(projects.updatedAt)]: the orders the store may return    *)
(* the rows of a set of ids in (rows of equal update time in any order).   *)
descUpdatedAt(ids) ==
    {rows \in [1..Cardinality(ids) -> ids] :
        /\ \A i, j \in 1..Cardinality(ids) : i # j => rows[i] # rows[j]
        /\ \A i, j \in 1..Cardinality(ids) :
              i < j => projects[rows[i]].updatedAt >= projects[rows[j]].updatedAt}

(* The record of a getProjects call: its filters, the instant it read as   *)
(* today, and the ids of the rows it returned, in order.                   *)
Listing(filters, rows, today) ==
    [op |-> "getProjects", res |-> "ok", data |-> NoData, id |-> NULL,
     newClient |-> NULL, prop |-> NULL, via |-> "storage", body |-> NoData,
     hadDocuments |-> 0, hadProjects |-> 0,
     filters |-> filters, rows |-> rows, today |-> today]

(* storage.getProjects(filters) *)
getProjects(filters) ==
    /\ \E all \in descUpdatedAt(DOMAIN projects) :
          LET kept == SelectSeq(all, LAMBDA p : matchesFilters(projects[p], filters, clock))
          IN  last' = Listing(filters, kept, clock)
    /\ UNCHANGED <<dbVars, reqs, norm>>

(* The seeded store of the list runs: direct, affiliate and other projects *)
(* of both team members, contacted on day 1 or never.                      *)
InitList ==
    /\ teamMembers = {1, 2}
    /\ clients = (1 :> ClientRow("Meridian Holdings", "active", 1, 0))
    /\ projects =
          (1 :> SeedProject("Meridian Holdings Investment Round", 1, 1))
          @@ (2 :> [SeedProject("Kotak Referral", NULL, NULL)
                       EXCEPT !.type = "affiliate", !.status = "pending",
                              !.assignedToId = 2,
                              !.affiliatePartner = JStr("kotak")])
          @@ (3 :> [SeedProject("IDC Conference", 1, NULL)
                       EXCEPT !.type = "other", !.status = "completed",
                              !.assignedToId = 2, !.category = JStr("idc")])
    /\ documents = << >>
    /\ files = {}
    /\ nextClientId = 2
    /\ nextProjectId = 4
    /\ nextDocumentId = 1
    /\ clock = 1
    /\ last = NoCall
    /\ reqs = << >>
    /\ norm = IdleNorm

ListFilters ==
    {[NoFilters EXCEPT !.status = s, !.assignedToId = a, !.type = t] :
        s \in {Undef, JStr("active")},
        a \in {Undef, JStr("2")},
        t \in {Undef, JStr("direct")}}
    \cup {[NoFilters EXCEPT !.lastContacted = JStr(b)] :
            b \in {"all", "today", "week", "month", "quarter"}}
    \cup {[status |-> JStr("active"), assignedToId |-> JStr("all"),
           type |-> JStr("all"), lastContacted |-> JStr("all")]}

ListUpdatePayloads ==
    {[NoData EXCEPT !.status = JStr("active")],
     [NoData EXCEPT !.assignedToId = JStr("2"), !.status = JStr("on-hold")],
     [NoData EXCEPT !.lastContacted = JStr("2024-01-03")],
     [NoData EXCEPT !.lastContacted = JDate(2), !.type = JStr("direct")]}

NextList ==
    \/ \E id \in DOMAIN projects, data \in ListUpdatePayloads : updateProject(id, data)
    \/ \E filters \in ListFilters : getProjects(filters)

SpecList == InitList /\ [][NextList]_vars

(* A filter that is absent or "all", or the value a row must have.         *)
Unfiltered(v) == v \in {Undef, JStr("all")}
AssigneeNamed(v) == IF v = JStr("1") THEN 1 ELSE IF v = JStr("2") THEN 2 ELSE NULL

(* C18: getProjects with status, assignedToId (a numeric string) and type  *)
(* filters returns exactly the projects that satisfy every filter given,   *)
(* each once, in descending order of update timestamp; a filter that is    *)
(* absent or "all" excludes no project.                                    *)
C18_FilterCombination ==
    (last.op = "getProjects" /\ Unfiltered(last.filters.lastContacted)) =>
        /\ {last.rows[i] : i \in DOMAIN last.rows}
              = {p \in DOMAIN projects :
                    /\ Unfiltered(last.filters.status)
                          \/ projects[p].status = last.filters.status.s
                    /\ Unfiltered(last.filters.assignedToId)
                          \/ projects[p].assignedToId
                                = AssigneeNamed(last.filters.assignedToId)
                    /\ Unfiltered(last.filters.type)
                          \/ projects[p].type = last.filters.type.s}
        /\ \A i, j \in DOMAIN last.rows :
              i < j => /\ last.rows[i] # last.rows[j]
                       /\ projects[last.rows[i]].updatedAt
                              >= projects[last.rows[j]].updatedAt

(* C18 witness: getProjects({status: "active", assignedToId: "2"})         *)
(* returned two projects updated at different times and left one out.      *)
C18_Witness ==
    /\ last.op = "getProjects"
    /\ last.filters.status = JStr("active")
    /\ last.filters.assignedToId = JStr("2")
    /\ Len(last.rows) = 2
    /\ projects[last.rows[1]].updatedAt > projects[last.rows[2]].updatedAt
    /\ Cardinality(DOMAIN projects) = 3

(* C19: a project returned for a last-contacted bucket has a lastContacted *)
(* between the start of the current bucket and the current time inclusive. *)
BucketStart(bucket, today) ==
    CASE bucket = "today" -> startOfDay(today)
      [] bucket = "week" -> startOfWeek(today)
      [] bucket = "month" -> startOfMonth(today)
      [] bucket = "quarter" -> startOfQuarter(today)

C19_BucketUpToNow ==
    (/\ last.op = "getProjects"
     /\ last.filters.lastContacted
            \in {JStr("today"), JStr("week"), JStr("month"), JStr("quarter")}) =>
        \A i \in DOMAIN last.rows :
            LET lastContacted == projects[last.rows[i]].lastContacted
            IN  /\ lastContacted # NULL
                /\ lastContacted >= BucketStart(last.filters.lastContacted.s, last.today)
                /\ lastContacted <= last.today

-----------------------------------------------------------------------------
(* getProjectStats (SpecStats): the counts and the completion rate, on     *)
(* stores of up to MaxStatProjects projects of known and unknown statuses, *)
(* with deletions in between.                                              *)

MaxStatProjects == 10

KnownStatuses == {"active", "pending", "completed", "on-hold"}

(* count() of the projects with a status *)
countStatus(status) ==
    Cardinality({p \in DOMAIN projects : projects[p].status = status})

(* The statusCounts map: the four known statuses, each with the count of   *)
(* its group; groups of other statuses are skipped.                        *)
statusCountsOf == [status \in KnownStatuses |-> countStatus(status)]

(* completionRate with the quotient truncated instead of rounded.          *)
completionRate_floor(completed, totalProjects) ==
    IF totalProjects > 0 THEN (completed * 100) \div totalProjects ELSE 0

(* totalProjects > 0 ? Math.round((completed / totalProjects) * 100) : 0.  *)
(* Math.round rounds halves up; for the totals of the model the quotient   *)
(* has a half only as a multiple of 1/8, which floating point represents   *)
(* exactly, so the integer computation gives the value the code gives.     *)
completionRate(completed, totalProjects) ==
    IF totalProjects > 0
    THEN (2 * completed * 100 + totalProjects) \div (2 * totalProjects)
    ELSE 0

(* subDays(new Date(), 7): the length of seven days in instants, and the   *)
(* number of rows the recent-activities query is limited to.               *)
SevenDays == 7
RecentLimit == 5

(* isPendingFollowup with a contact exactly seven days ago counted too.    *)
isPendingFollowup_inclusive(row, now) ==
    /\ row.status = "active"
    /\ (row.lastContacted = NULL \/ row.lastContacted <= now - SevenDays)

(* The WHERE clause of the pending follow-ups count: status = 'active' AND *)
(* (last_contacted < oneWeekAgo OR last_contacted IS NULL).                *)
isPendingFollowup(row, now) ==
    /\ row.status = "active"
    /\ (row.lastContacted = NULL \/ row.lastContacted < now - SevenDays)

pendingFollowupsOf(now) ==
    Cardinality({p \in DOMAIN projects : isPendingFollowup(projects[p], now)})

(* ORDER BY updated_at DESC LIMIT n, mapped to activities: the update      *)
(* instants of the n most recently updated rows, latest first.  The rows   *)
(* of equal update time come in an order the store chooses; the instants   *)
(* are the same in each of them, the descriptions are left out.            *)
RECURSIVE recentActivitiesOf(_, _)
recentActivitiesOf(ids, n) ==
    IF n = 0 \/ ids = {} THEN << >>
    ELSE LET latest == CHOOSE p \in ids :
                          \A q \in ids : projects[p].updatedAt >= projects[q].updatedAt
         IN  <<projects[latest].updatedAt>> \o recentActivitiesOf(ids \ {latest}, n - 1)

(* The record of a getProjectStats call and the statistics it returned.    *)
Stats(totalProjects, statusCounts, rate, pendingFollowups, recentActivities) ==
    [op |-> "getProjectStats", res |-> "ok", data |-> NoData, id |-> NULL,
     newClient |-> NULL, prop |-> NULL, via |-> "storage", body |-> NoData,
     hadDocuments |-> 0, hadProjects |-> 0,
     totalProjects |-> totalProjects, statusCounts |-> statusCounts,
     completionRate |-> rate, pendingFollowups |-> pendingFollowups,
     recentActivities |-> recentActivities]

(* storage.getProjectStats(), its reads run without interruption: the      *)
(* total, the per-status counts, the completion rate, the pending          *)
(* follow-ups and the recent activities.  The handler changes nothing.     *)
(* The count of the projects created this month is a read of its own that  *)
(* enters none of the other values; the rows of the model carry no         *)
(* creation instant.                                                       *)
getProjectStats ==
    LET totalProjects == Cardinality(DOMAIN projects)
        statusCounts == statusCountsOf
    IN  /\ last' = Stats(totalProjects, statusCounts,
                         completionRate(statusCounts["completed"], totalProjects),
                         pendingFollowupsOf(clock),
                         recentActivitiesOf(DOMAIN projects, RecentLimit))
        /\ UNCHANGED <<dbVars, reqs, norm>>

(* A store of completed, active and archived projects.                     *)
StatProject(p, completed, active) ==
    [SeedProject("Acme", NULL, NULL)
        EXCEPT !.status = IF p <= completed THEN "completed"
                          ELSE IF p <= completed + active THEN "active"
                          ELSE "archived"]

InitStats ==
    /\ teamMembers = {1, 2}
    /\ clients = << >>
    /\ \E completed, active, archived \in 0..MaxStatProjects :
          /\ completed + active + archived <= MaxStatProjects
          /\ projects = [p \in 1..(completed + active + archived) |->
                            StatProject(p, completed, active)]
          /\ nextProjectId = completed + active + archived + 1
    /\ documents = << >>
    /\ files = {}
    /\ nextClientId = 1
    /\ nextDocumentId = 1
    /\ clock = 1
    /\ last = NoCall
    /\ reqs = << >>
    /\ norm = IdleNorm

NextStats ==
    \/ getProjectStats
    \/ \E id \in DOMAIN projects : deleteProject(id)

SpecStats == InitStats /\ [][NextStats]_vars

(* C20: getProjectStats returns completionRate = 0 for a store without     *)
(* projects and otherwise completed / total x 100 rounded to the nearest   *)
(* integer (halves up), total counting every project; a project of a       *)
(* status that is not one of the four known ones counts in the total and   *)
(* in no per-status count; 3 completed of 10 give 30.                      *)
C20_CompletionRate ==
    last.op = "getProjectStats" =>
        LET total == Cardinality(DOMAIN projects)
            completed == Cardinality({p \in DOMAIN projects :
                                         projects[p].status = "completed"})
            unknown == Cardinality({p \in DOMAIN projects :
                                       projects[p].status \notin KnownStatuses})
            rate == last.completionRate
        IN  /\ last.totalProjects = total
            /\ DOMAIN last.statusCounts = KnownStatuses
            /\ \A s \in KnownStatuses :
                  last.statusCounts[s]
                      = Cardinality({p \in DOMAIN projects : projects[p].status = s})
            /\ last.statusCounts["active"] + last.statusCounts["pending"]
                   + last.statusCounts["completed"] + last.statusCounts["on-hold"]
                   + unknown = total
            /\ total = 0 => rate = 0
            /\ total > 0 =>
                  /\ 2 * total * rate - total <= 200 * completed
                  /\ 200 * completed < 2 * total * rate + total
            /\ (total = 10 /\ completed = 3) => rate = 30

(* C20 witness: 3 completed of 10 projects, one of them of an unknown      *)
(* status, gave 30.                                                        *)
C20_Witness ==
    /\ last.op = "getProjectStats"
    /\ last.totalProjects = 10
    /\ last.statusCounts["completed"] = 3
    /\ \E p \in DOMAIN projects : projects[p].status = "archived"
    /\ last.completionRate = 30

-----------------------------------------------------------------------------
(* Pending follow-ups (SpecFollowups): getProjectStats on stores whose     *)
(* projects were last contacted around seven days before the call.         *)

FollowupProject(status, lastContacted) ==
    [SeedProject("Acme", lastContacted, NULL) EXCEPT !.status = status]

InitFollowups ==
    /\ teamMembers = {1, 2}
    /\ clients = << >>
    /\ clock \in {SevenDays + 2, SevenDays + 3}
    /\ projects \in
          [1..2 -> {FollowupProject(status, lastContacted) :
                       status \in {"active", "pending", "completed"},
                       lastContacted \in {NULL, 1, 2, 3, SevenDays + 2}}]
    /\ documents = << >>
    /\ files = {}
    /\ nextClientId = 1
    /\ nextProjectId = 3
    /\ nextDocumentId = 1
    /\ last = NoCall
    /\ reqs = << >>
    /\ norm = IdleNorm

NextFollowups == getProjectStats

SpecFollowups == InitFollowups /\ [][NextFollowups]_vars

(* C21: getProjectStats counts as pending follow-ups exactly the projects  *)
(* whose status is "active" and whose lastContacted is missing or more     *)
(* than seven days before the call: one instant more than seven days       *)
(* counts, exactly seven days and one instant less do not, and a project   *)
(* of another status never counts.                                         *)
C21_PendingFollowups ==
    last.op = "getProjectStats" =>
        /\ last.pendingFollowups
              = Cardinality({p \in DOMAIN projects :
                                /\ projects[p].status = "active"
                                /\ \/ projects[p].lastContacted = NULL
                                   \/ clock - projects[p].lastContacted > SevenDays})
        /\ \A p \in DOMAIN projects :
              (/\ projects[p].status = "active"
               /\ projects[p].lastContacted = clock - SevenDays - 1
               /\ projects[3 - p].status # "active") => last.pendingFollowups = 1
        /\ \A p \in DOMAIN projects :
              (/\ projects[p].lastContacted = clock - SevenDays + 1
               /\ projects[3 - p].status # "active") => last.pendingFollowups = 0

(* C21 witness: of two active projects, the one contacted seven days and   *)
(* one instant ago was counted, the one contacted exactly seven days ago   *)
(* was not.                                                                *)
C21_Witness ==
    /\ last.op = "getProjectStats"
    /\ projects[1].status = "active"
    /\ projects[2].status = "active"
    /\ projects[1].lastContacted = clock - SevenDays - 1
    /\ projects[2].lastContacted = clock - SevenDays
    /\ last.pendingFollowups = 1

-----------------------------------------------------------------------------
(* Clients (SpecClients): createClient and updateClient with valid and     *)
(* invalid names, statuses and dates.                                      *)

ClientEditPayloads ==
    {[NoData EXCEPT !.name = JStr("A")],
     [NoData EXCEPT !.status = JStr("")],
     [NoData EXCEPT !.name = JStr("Acme Corp"), !.status = JStr("pending")],
     [NoData EXCEPT !.lastContacted = JStr("not-a-date")]}

NextClients ==
    \/ \E data \in ClientPayloads : createClient(data)
    \/ \E id \in 1..nextClientId, data \in ClientEditPayloads : updateClient(id, data)

SpecClients == Init /\ [][NextClients]_vars

(* C22: an updateClient call whose name is shorter than 2 characters or    *)
(* whose status is empty fails with a validation error and leaves the      *)
(* clients as they were.                                                   *)
C22_UpdateClientStep ==
    (/\ last'.op = "updateClient"
     /\ \/ IsString(last'.data.name) /\ Len(last'.data.name.s) < 2
        \/ last'.data.status = JStr("")) =>
        /\ last'.res = "ZodError"
        /\ clients' = clients

C22_UpdateClientValidated == [][C22_UpdateClientStep]_vars

-----------------------------------------------------------------------------
(* The default assignee (SpecTeam): createProject with and without an      *)
(* assignedToId, on an empty store with any non-empty subset of the seeded *)
(* team members.                                                           *)

(* The ids of the seeded team members: 1 Alex Morgan, 2 Sarah Johnson,     *)
(* 3 Michael Chen, 4 Priya Patel; and the same ids in the order of their   *)
(* names.                                                                  *)
SeedTeamMembers == {1, 2, 3, 4}
teamMembersByName == <<1, 3, 4, 2>>

(* storage.getTeamMembers(): the team members ordered by name.             *)
getTeamMembers == SelectSeq(teamMembersByName, LAMBDA m : m \in teamMembers)

InitTeam ==
    /\ teamMembers \in (SUBSET SeedTeamMembers) \ {{}}
    /\ clients = << >>
    /\ projects = << >>
    /\ documents = << >>
    /\ files = {}
    /\ nextClientId = 1
    /\ nextProjectId = 1
    /\ nextDocumentId = 1
    /\ clock = 1
    /\ last = NoCall
    /\ reqs = << >>
    /\ norm = IdleNorm

TeamPayloads ==
    {[Acme EXCEPT !.type = t, !.affiliatePartner = JStr("kotak"), !.assignedToId = a] :
        t \in {JStr("direct"), JStr("affiliate")},
        a \in {Undef, JStr("2"), JNum(3)}}

NextTeam == \E data \in TeamPayloads : createProject(data)

SpecTeam == InitTeam /\ [][NextTeam]_vars

(* C23: a createProject call without assignedToId returns, and the project *)
(* it persisted is assigned to the team member that comes first in name    *)
(* order.                                                                  *)
C23_DefaultAssignee ==
    (last.op = "createProject" /\ last.data.assignedToId = Undef) =>
        /\ last.res = "ok"
        /\ projects[last.id].assignedToId = getTeamMembers[1]

-----------------------------------------------------------------------------
(* Further properties of the partial-update runs (SpecFrame).              *)

(* C24: every persisted project of type "affiliate" has a non-empty        *)
(* affiliatePartner and every persisted project of type "other" has a      *)
(* non-empty category.                                                     *)
C24_TypeFieldsPopulated ==
    \A p \in DOMAIN projects :
        /\ projects[p].type = "affiliate" =>
              IsString(projects[p].affiliatePartner) /\ projects[p].affiliatePartner.s # ""
        /\ projects[p].type = "other" =>
              IsString(projects[p].category) /\ projects[p].category.s # ""

-----------------------------------------------------------------------------
(* The responses of the routes (SpecInvoice).                              *)

(* C25: a route answers a schema validation error with 400 and the         *)
(* readable validation message, and every other error (updateProject on a  *)
(* missing id included) with 500 and the fixed message "Internal server    *)
(* error", which is not the error's own text.                              *)
C25_ErrorMapping ==
    (last.via = "route" /\ last.res # "ok") =>
        /\ last.res = "ZodError" =>
              /\ last.response.status = 400
              /\ last.response.message = errorText("ZodError")
        /\ last.res # "ZodError" =>
              /\ last.response.status = 500
              /\ last.response.message = "Internal server error"
              /\ last.response.message # errorText(last.res)

(* C25 witness: PATCH /api/projects/:id for a missing project was answered *)
(* with 500.                                                               *)
C25_Witness ==
    /\ last.via = "route"
    /\ last.op = "updateProject"
    /\ last.res = "NotFound"
    /\ last.id \notin DOMAIN projects
    /\ last.response.status = 500

-----------------------------------------------------------------------------
(* Interleaved updateProject requests that change the status               *)
(* (SpecConcStatus): the steps of SpecConc with payloads that carry a      *)
(* status only.                                                            *)

StatusPayloads ==
    {[NoData EXCEPT !.status = JStr(s)] : s \in {"completed", "pending", "on-hold"}}

NextConcStatus ==
    \/ \E id \in 1..MaxProjects, data \in StatusPayloads : startUpdate(id, data)
    \/ \E r \in DOMAIN reqs : findProject(r)
    \/ \E r \in DOMAIN reqs : writeProject(r)
    \/ \E r \in DOMAIN reqs : writeClientStatus(r)

SpecConcStatus == Init /\ [][NextConcStatus]_vars

(* Both requests are for the same project, both changed its status and     *)
(* both have returned.                                                     *)
BothChangedStatus ==
    /\ Len(reqs) = 2
    /\ AllReturned
    /\ reqs[1].id = reqs[2].id
    /\ \A r \in DOMAIN reqs :
          /\ reqs[r].res = "ok"
          /\ statusChanged(reqs[r].updatedProject, reqs[r].currentProject)

(* C26: once two concurrent updateProject requests that change the status  *)
(* of the same project have both completed, the status of the client the   *)
(* project is linked to equals the persisted status of the project.        *)
C26_ConcurrentStatus ==
    BothChangedStatus =>
        LET id == reqs[1].id
        IN  (id \in DOMAIN projects /\ projects[id].clientId \in DOMAIN clients) =>
                clients[projects[id].clientId].status = projects[id].status

-----------------------------------------------------------------------------
(* Every create, update and delete operation of the storage on projects,   *)
(* clients and documents, with references that exist and references that   *)
(* do not (SpecRefs).                                                      *)

RefCreatePayloads ==
    {[Acme EXCEPT !.type = JStr("direct")],
     [Acme EXCEPT !.type = JStr("direct"), !.clientId = JNum(1)],
     [Acme EXCEPT !.type = JStr("affiliate"), !.affiliatePartner = JStr("kotak"),
                  !.assignedToId = JNum(2)],
     [Acme EXCEPT !.type = JStr("direct"), !.assignedToId = JNum(9)]}

RefUpdatePayloads ==
    {[NoData EXCEPT !.assignedToId = JStr("2")],
     [NoData EXCEPT !.assignedToId = JNum(9)],
     [NoData EXCEPT !.clientId = JNum(7), !.status = JStr("completed")]}

NextRefs ==
    \/ \E data \in RefCreatePayloads : createProject(data)
    \/ \E id \in 1..MaxProjects, data \in RefUpdatePayloads : updateProject(id, data)
    \/ \E id \in 1..MaxProjects : deleteProject(id)
    \/ createClient(Acme)
    \/ \E id \in 1..MaxClients :
          updateClient(id, [NoData EXCEPT !.status = JStr("on-hold")])
    \/ \E clientId \in 0..MaxClients : createDocument(clientId)
    \/ \E id \in 1..MaxDocuments : deleteDocument(id)
    \/ \E id \in 1..MaxClients : deleteClient(id)

SpecRefs == Init /\ [][NextRefs]_vars

(* C27: in every state reached by create, update and delete operations,    *)
(* every document's clientId names an existing client, every project's     *)
(* non-null clientId names an existing client, and every project's         *)
(* assignedToId names an existing team member.                             *)
C27_ReferentialIntegrity ==
    /\ \A d \in DOMAIN documents : documents[d].clientId \in DOMAIN clients
    /\ \A p \in DOMAIN projects :
          /\ projects[p].clientId # NULL => projects[p].clientId \in DOMAIN clients
          /\ projects[p].assignedToId \in teamMembers

(* C27 witness: deleteClient removed a client that had documents and       *)
(* projects, and a project of another owner remains.                       *)
C27_Witness ==
    /\ last.op = "deleteClient"
    /\ last.res = "ok"
    /\ last.hadDocuments >= 1
    /\ last.hadProjects >= 1
    /\ last.id \notin DOMAIN clients
    /\ DOMAIN projects # {}

-----------------------------------------------------------------------------
(* getProjectStats and getClientStats read by read (SpecStatsConc).  Every *)
(* await of the two functions is a step of its own, and creations, updates *)
(* and deletions by other requests run between the steps.                  *)

StatsRequest(op) ==
    [op |-> op, pc |-> IF op = "getProjectStats" THEN "totalProjects"
                       ELSE "totalClients",
     totalProjects |-> 0, statusCounts |-> [status \in KnownStatuses |-> 0],
     completionRate |-> 0, pendingFollowups |-> 0, recentActivities |-> << >>,
     totalClients |-> 0, activeClients |-> 0]

startStats(op) ==
    /\ Len(reqs) < MaxReqs
    /\ reqs' = Append(reqs, StatsRequest(op))
    /\ UNCHANGED <<dbVars, last, norm>>

(* const totalProjectsResult = await db.select({ count: count() })         *)
(* .from(projects), followed by the count of the projects created this     *)
(* month, which no other value depends on.                                 *)
readTotalProjects(r) ==
    /\ reqs[r].pc = "totalProjects"
    /\ reqs' = [reqs EXCEPT ![r].totalProjects = Cardinality(DOMAIN projects),
                            ![r].pc = "statusCounts"]
    /\ UNCHANGED <<dbVars, last, norm>>

(* const statusResults = await db.select(...).groupBy(projects.status) and *)
(* the completion rate computed from it and the total read before.         *)
readStatusCounts(r) ==
    /\ reqs[r].pc = "statusCounts"
    /\ reqs' = [reqs EXCEPT ![r].statusCounts = statusCountsOf,
                            ![r].completionRate =
                                completionRate(statusCountsOf["completed"],
                                               reqs[r].totalProjects),
                            ![r].pc = "pendingFollowups"]
    /\ UNCHANGED <<dbVars, last, norm>>

(* const pendingFollowupsResult = await db.select({ count: count() })...   *)
readPendingFollowups(r) ==
    /\ reqs[r].pc = "pendingFollowups"
    /\ reqs' = [reqs EXCEPT ![r].pendingFollowups = pendingFollowupsOf(clock),
                            ![r].pc = "recentActivities"]
    /\ UNCHANGED <<dbVars, last, norm>>

(* const recentProjectUpdates = await db.select(...).orderBy(desc(...))    *)
(* .limit(5), and the return of the collected values.                      *)
readRecentActivities(r) ==
    /\ reqs[r].pc = "recentActivities"
    /\ reqs' = [reqs EXCEPT ![r].recentActivities =
                                recentActivitiesOf(DOMAIN projects, RecentLimit),
                            ![r].pc = "done"]
    /\ UNCHANGED <<dbVars, last, norm>>

(* const totalClientsResult = await db.select({ count: count() })          *)
(* .from(clients)                                                          *)
readTotalClients(r) ==
    /\ reqs[r].pc = "totalClients"
    /\ reqs' = [reqs EXCEPT ![r].totalClients = Cardinality(DOMAIN clients),
                            ![r].pc = "activeClients"]
    /\ UNCHANGED <<dbVars, last, norm>>

(* const activeClientsResult = await db.select({ count: count() })         *)
(* .from(clients).where(eq(clients.status, 'active')), and the return.     *)
readActiveClients(r) ==
    /\ reqs[r].pc = "activeClients"
    /\ reqs' = [reqs EXCEPT ![r].activeClients =
                                Cardinality({c \in DOMAIN clients :
                                                clients[c].status = "active"}),
                            ![r].pc = "done"]
    /\ UNCHANGED <<dbVars, last, norm>>

StatsCreatePayloads ==
    {[Acme EXCEPT !.type = JStr("direct")],
     [Acme EXCEPT !.type = JStr("affiliate"), !.affiliatePartner = JStr("kotak"),
                  !.status = JStr("completed")]}

NextStatsConc ==
    \/ \E op \in {"getProjectStats", "getClientStats"} : startStats(op)
    \/ \E r \in DOMAIN reqs : readTotalProjects(r)
    \/ \E r \in DOMAIN reqs : readStatusCounts(r)
    \/ \E r \in DOMAIN reqs : readPendingFollowups(r)
    \/ \E r \in DOMAIN reqs : readRecentActivities(r)
    \/ \E r \in DOMAIN reqs : readTotalClients(r)
    \/ \E r \in DOMAIN reqs : readActiveClients(r)
    \/ \E data \in StatsCreatePayloads : createProject(data)
    \/ \E id \in 1..MaxProjects :
          updateProject(id, [NoData EXCEPT !.status = JStr("completed")])
    \/ \E id \in 1..MaxProjects : deleteProject(id)
    \/ createClient(Acme)
    \/ \E id \in 1..MaxClients : deleteClient(id)

SpecStatsConc == Init /\ [][NextStatsConc]_vars

(* The instants of a recent-activities list never increase.                *)
Descending(activities) ==
    \A i \in 1..(Len(activities) - 1) : activities[i] >= activities[i + 1]

(* C28: the values one projectStats call returns are mutually consistent   *)
(* even when creations, updates and deletions run between its reads: the   *)
(* completion rate is within 0..100, every per-status count and            *)
(* pendingFollowups is at most totalProjects, recentActivities has at most *)
(* 5 entries in descending update-time order; and clientStats returns      *)
(* activeClients <= totalClients.                                          *)
C28_ConsistentStats ==
    \A r \in DOMAIN reqs :
        reqs[r].pc = "done" =>
            /\ reqs[r].completionRate >= 0
            /\ reqs[r].completionRate <= 100
            /\ \A status \in KnownStatuses :
                  reqs[r].statusCounts[status] <= reqs[r].totalProjects
            /\ reqs[r].pendingFollowups <= reqs[r].totalProjects
            /\ Len(reqs[r].recentActivities) <= RecentLimit
            /\ Descending(reqs[r].recentActivities)
            /\ reqs[r].activeClients <= reqs[r].totalClients

-----------------------------------------------------------------------------
(* The document routes of a client (SpecDocRoutes).                        *)

NextDocRoutes ==
    \/ createClient(Acme)
    \/ \E clientId \in 1..MaxClients : createDocument(clientId)
    \/ \E clientId \in 1..MaxClients, documentId \in 1..MaxDocuments :
          deleteClientDocument(clientId, documentId)
    \/ \E clientId \in 1..MaxClients, documentId \in 1..MaxDocuments :
          downloadClientDocument(clientId, documentId)

SpecDocRoutes == Init /\ [][NextDocRoutes]_vars

C29_DeleteStep ==
    (/\ clock' # clock
     /\ last'.op = "deleteDocument"
     /\ last'.via = "route"
     /\ last'.id \in DOMAIN documents
     /\ documents[last'.id].clientId # last'.clientId)
    => /\ documents' = documents
       /\ files' = files

(* C29: DELETE /clients/:clientId/documents/:documentId with a clientId    *)
(* that is not the client of the document leaves the document record and   *)
(* its file in place, as the download route does.                          *)
C29_DeleteChecksClient == [][C29_DeleteStep]_vars

C30_FrameStep ==
    UpdateReturned(last') =>
        LET old == projects[last'.id]
            new == projects'[last'.id]
        IN  /\ (/\ new.status = old.status
                /\ (new.lastContacted = old.lastContacted
                    \/ new.lastContacted = NULL)) => clients' = clients
            /\ DOMAIN clients' = DOMAIN clients
            /\ \A c \in DOMAIN clients \ {new.clientId} : clients'[c] = clients[c]

(* C30: an updateProject call that changes neither the status nor the      *)
(* lastContacted of the project, or that sets lastContacted to null        *)
(* without changing the status, leaves the linked client record unchanged  *)
(* (lastContacted, status and update timestamp included); and no           *)
(* updateProject call modifies a client other than the linked one.         *)
C30_ClientFrame == [][C30_FrameStep]_vars

(* C30 witness: an update that names neither status nor lastContacted      *)
(* returned for a project contacted later than its client, and the client  *)
(* still has no last-contacted instant and an older update timestamp.      *)
C30_Witness ==
    /\ UpdateReturned(last)
    /\ last.data.status = Undef
    /\ last.data.lastContacted = Undef
    /\ last.id \in DOMAIN projects
    /\ projects[last.id].lastContacted # NULL
    /\ projects[last.id].clientId \in DOMAIN clients
    /\ clients[projects[last.id].clientId].lastContacted = NULL
    /\ clients[projects[last.id].clientId].updatedAt < projects[last.id].updatedAt

=============================================================================
